---- MODULE Spec2Model ----
(***************************************************************************)
(* Host side of cwdbg, a source-level debugger for AmigaOS / M68k.         *)
(*                                                                         *)
(* The model follows src/host/server.py (SLIP framing, sequence numbers,   *)
(* ServerCommand.execute), src/host/target.py (TargetInfo) and             *)
(* src/host/cli.py (the CLI commands and their target-state guards).       *)
(* The debug agent on the Amiga side is the environment: it is modelled    *)
(* from the protocol description, as a peer that may also misbehave.       *)
(***************************************************************************)
EXTENDS Integers, Sequences, FiniteSets, TLC

(***************************************************************************)
(* Bounds of the model (not program constants).                            *)
(***************************************************************************)
\* longest payload drawn for a message in the codec specification
MaxPayloadLen == 2
\* number of send_message / recv_message calls of one connection-level run
MaxCalls == 4
\* number of frames the peer writes in one connection-level run
MaxAgentFrames == 2
\* size of the partial socket read that exercises recv_message's read loop
PartialRead == 3
\* number of partial reads one recv_message call may get
MaxPartialReads == 3
\* number of ServerCommand.execute calls of one command-level run
MaxExecs == 3

(***************************************************************************)
(* Program constants: server.py                                            *)
(***************************************************************************)
MAX_FRAME_SIZE == 4096
SLIP_END == 192
SLIP_ESCAPED_END == 220
SLIP_ESC == 219
SLIP_ESCAPED_ESC == 221

MSG_INIT == 0
MSG_ACK == 1
MSG_NACK == 2
MSG_RUN == 3
MSG_QUIT == 4
MSG_CONT == 5
MSG_STEP == 6
MSG_KILL == 7
MSG_PEEK_MEM == 8
MSG_POKE_MEM == 9
MSG_SET_BPOINT == 10
MSG_CLEAR_BPOINT == 11
MSG_TARGET_STOPPED == 12
MSG_GET_BASE_ADDRESS == 13

\* class MsgTypes(IntEnum): MsgTypes(x) raises ValueError outside this set
MsgTypes == MSG_INIT .. MSG_GET_BASE_ADDRESS

\* sizeof(ProtoMessage): seqnum u16, checksum u16, type u8, length u8
SizeofProtoMessage == 6
\* the checksum every sent header carries, 0xdead
CHECKSUM == 57005

(***************************************************************************)
(* Bytes and byte strings. A byte string is a sequence of 0..255.          *)
(***************************************************************************)
\* struct '>H' / c_uint16 in a BigEndianStructure: two bytes, high first;
\* ctypes keeps the low 16 bits of a larger Python int
U16Bytes(n) == << (n % 65536) \div 256, n % 256 >>

\* big-endian u16 read from two bytes
U16At(buf, i) == buf[i] * 256 + buf[i + 1]

\* struct '>I' / c_uint32: four bytes, high first
U32Bytes(n) ==
    << (n \div 16777216) % 256, (n \div 65536) % 256, (n \div 256) % 256, n % 256 >>

\* big-endian u32 read from four bytes
U32At(buf, i) ==
    buf[i] * 16777216 + buf[i + 1] * 65536 + buf[i + 2] * 256 + buf[i + 3]

\* python slice buf[lo:hi] with 0-based lo, hi; clipped to the buffer
Slice(buf, lo, hi) ==
    LET h == IF hi > Len(buf) THEN Len(buf) ELSE hi
    IN  IF lo >= h THEN << >> ELSE SubSeq(buf, lo + 1, h)

\* bytes.find(b): 0-based index of the first occurrence of byte b, or -1
Find(buf, b) ==
    LET at == { i \in 1 .. Len(buf) : buf[i] = b }
    IN  IF at = {} THEN -1
        ELSE (CHOOSE i \in at : \A j \in at : i <= j) - 1

\* number of occurrences of byte b
CountByte(buf, b) == Cardinality({i \in 1 .. Len(buf) : buf[i] = b})

\* 1-based index of the first occurrence of byte a at or after position i,
\* 0 if there is none
NextAt(buf, a, i) ==
    LET at == { j \in i .. Len(buf) : buf[j] = a }
    IN  IF at = {} THEN 0 ELSE CHOOSE j \in at : \A l \in at : j <= l

\* 1-based index of the first occurrence of the pair a1 a2 at or after i,
\* 0 if there is none
NextPairAt(buf, a1, a2, i) ==
    LET at == { j \in i .. Len(buf) - 1 : buf[j] = a1 /\ buf[j + 1] = a2 }
    IN  IF at = {} THEN 0 ELSE CHOOSE j \in at : \A l \in at : j <= l

\* bytes.replace(<<a>>, <<r1, r2>>) from position i on: left to right, what
\* lies before the next occurrence is copied, the occurrence is replaced
RECURSIVE Replace1By2(_, _, _, _, _)
Replace1By2(buf, a, r1, r2, i) ==
    LET j == NextAt(buf, a, i)
    IN  IF j = 0 THEN SubSeq(buf, i, Len(buf))
        ELSE SubSeq(buf, i, j - 1) \o << r1, r2 >>
                 \o Replace1By2(buf, a, r1, r2, j + 1)

\* bytes.replace(<<a1, a2>>, <<r>>) from position i on: left to right, the
\* occurrences replaced do not overlap
RECURSIVE Replace2By1(_, _, _, _, _)
Replace2By1(buf, a1, a2, r, i) ==
    LET j == NextPairAt(buf, a1, a2, i)
    IN  IF j = 0 THEN SubSeq(buf, i, Len(buf))
        ELSE SubSeq(buf, i, j - 1) \o << r >>
                 \o Replace2By1(buf, a1, a2, r, j + 2)

(***************************************************************************)
(* ServerConnection.send_message: the bytes written (server.py 89-102).    *)
(***************************************************************************)
\* bytearray(ProtoMessage(seqnum, 0xdead, type, length)): c_uint16 and
\* c_uint8 fields keep the low bits of the value given
HeaderBytes(seqnum, msg_type, length) ==
    U16Bytes(seqnum) \o U16Bytes(CHECKSUM) \o << msg_type % 256, length % 256 >>

\* the header with length = len(data), then the data
MessageBytes(seqnum, msg_type, data) ==
    HeaderBytes(seqnum, msg_type, Len(data)) \o data

\* mutant: END is escaped before ESC, so the ESC of an escaped END is
\* escaped again
SlipEncode_EndFirst(buffer) ==
    Replace1By2(
        Replace1By2(buffer, SLIP_END, SLIP_ESC, SLIP_ESCAPED_END, 1),
        SLIP_ESC, SLIP_ESC, SLIP_ESCAPED_ESC, 1)

\* SLIP encoding of send_message: ESC first, then END
SlipEncode(buffer) ==
    Replace1By2(
        Replace1By2(buffer, SLIP_ESC, SLIP_ESC, SLIP_ESCAPED_ESC, 1),
        SLIP_END, SLIP_ESC, SLIP_ESCAPED_END, 1)

\* the frame send_message hands to the socket
SendFrame(seqnum, msg_type, data) ==
    SlipEncode(MessageBytes(seqnum, msg_type, data)) \o << SLIP_END >>

\* next_seqnum after a successful send
IsAckOrNack(msg_type) == msg_type \in {MSG_ACK, MSG_NACK}

\* mutant: the sequence number moves on after every send
SeqAfterSend_EverySend(seqnum, msg_type) == seqnum + 1

SeqAfterSend(seqnum, msg_type) ==
    IF IsAckOrNack(msg_type) THEN seqnum + 1 ELSE seqnum

(***************************************************************************)
(* ServerConnection.recv_message (server.py 117-153).                      *)
(***************************************************************************)
\* the read loop ends when the accumulated buffer holds an end-of-frame byte
FrameComplete(buffer) == Find(buffer, SLIP_END) # -1

\* mutant: a decoder that drops an ESC which starts no escape sequence
RECURSIVE SlipDecode_DropStray(_)
SlipDecode_DropStray(buffer) ==
    IF buffer = << >> THEN << >>
    ELSE IF Len(buffer) > 1 /\ buffer[1] = SLIP_ESC /\ buffer[2] = SLIP_ESCAPED_END
         THEN << SLIP_END >> \o SlipDecode_DropStray(SubSeq(buffer, 3, Len(buffer)))
    ELSE IF Len(buffer) > 1 /\ buffer[1] = SLIP_ESC /\ buffer[2] = SLIP_ESCAPED_ESC
         THEN << SLIP_ESC >> \o SlipDecode_DropStray(SubSeq(buffer, 3, Len(buffer)))
    ELSE IF buffer[1] = SLIP_ESC THEN SlipDecode_DropStray(Tail(buffer))
    ELSE << buffer[1] >> \o SlipDecode_DropStray(Tail(buffer))

\* SLIP decoding of recv_message, applied to the whole buffer
SlipDecode(buffer) ==
    Replace2By1(
        Replace2By1(buffer, SLIP_ESC, SLIP_ESCAPED_END, SLIP_END, 1),
        SLIP_ESC, SLIP_ESCAPED_ESC, SLIP_ESC, 1)

\* ProtoMessage.from_buffer and the data slice; "short" is from_buffer's
\* ValueError on a buffer of fewer than sizeof(ProtoMessage) bytes
ParseMessage(decoded) ==
    IF Len(decoded) < SizeofProtoMessage
    THEN [short |-> TRUE, seqnum |-> 0, checksum |-> 0, type |-> 0,
          length |-> 0, data |-> << >>]
    ELSE [short |-> FALSE,
          seqnum |-> U16At(decoded, 1),
          checksum |-> U16At(decoded, 3),
          type |-> decoded[5],
          length |-> decoded[6],
          data |-> Slice(decoded, SizeofProtoMessage,
                         SizeofProtoMessage + decoded[6])]

\* mutant: an ACK / NACK is accepted whatever its sequence number is
RecvResult_NoSeqCheck(buffer, seqnum) ==
    LET msg == ParseMessage(SlipDecode(buffer))
        err == [ok |-> FALSE, type |-> -1, data |-> << >>, seqnum |-> seqnum]
    IN  IF msg.short THEN err
        ELSE IF msg.type \notin MsgTypes THEN err
        ELSE [ok |-> TRUE, type |-> msg.type, data |-> msg.data,
              seqnum |-> IF IsAckOrNack(msg.type) THEN seqnum + 1 ELSE seqnum]

\* what recv_message does once the buffer holds a frame: the value returned
\* (ok, type, data) or the ConnectionError raised, and the new next_seqnum
RecvResult(buffer, seqnum) ==
    LET msg == ParseMessage(SlipDecode(buffer))
        err == [ok |-> FALSE, type |-> -1, data |-> << >>, seqnum |-> seqnum]
    IN  IF msg.short THEN err
        ELSE IF msg.type \notin MsgTypes THEN err
        ELSE IF IsAckOrNack(msg.type)
             THEN IF msg.seqnum = seqnum
                  THEN [ok |-> TRUE, type |-> msg.type, data |-> msg.data,
                        seqnum |-> seqnum + 1]
                  ELSE err
        ELSE [ok |-> TRUE, type |-> msg.type, data |-> msg.data,
              seqnum |-> seqnum]

(***************************************************************************)
(* State.                                                                  *)
(***************************************************************************)
VARIABLES
    next_seqnum,      \* ServerConnection._next_seqnum (a Python int)
    wire_out,         \* bytes the host wrote to the socket, not yet read by the peer
    wire_in,          \* bytes the peer wrote to the socket, not yet read by the host
    rbuf,             \* recv_message's local bytearray, while a call is in its loop
    pc,               \* where the host is
    ret,              \* what the last recv_message call returned or raised
    calls,            \* calls the driver of the specification has made so far
    last_sent,        \* history: the arguments of the send whose frame is in wire_out
    pending,          \* history: the messages whose end byte is still in wire_in
    acks_sent,        \* history: ACK/NACK messages handed to the socket
    acks_rcvd,        \* history: ACK/NACK messages recv_message returned
    frames_written,   \* history: frames the peer has written
    frames_read,      \* history: recv_message calls that ended (return or raise)
    cmd,              \* the ServerCommand object whose execute() ran last
    raised,           \* the exception that execute() raised, "" for none
    events,           \* history: what that execute() sent and received
    agent_seq,        \* the agent's own next sequence number
    agent_owes,       \* 0: nothing, 1: a stop notification, 2: waits for its ACK
    stop_sent,        \* history: the TargetInfo of the agent's last notification
    dbg_target_info,  \* dbg.target_info: << >> for None, << t >> for a TargetInfo t
    dbg_program,      \* dbg.program: << >> for None, << p >> for a loaded program
    stored_args,      \* Cli._stored_args: << >> while the attribute is not set
    cli,              \* the CLI command that is inside an execute(), with its locals
    result,           \* what the last process_command call returned
    session,          \* the command loop: "init", "prompt", "quit" or "fatal"
    server_conn,      \* the socket: "none"; "local" (open, held by the
                      \* ServerConnection under construction); "dbg" (open,
                      \* the connection is dbg.server_conn); "closed"
    stabs,            \* the list of stabs that ProgramWithDebugInfo(stabs)
                      \* gets, << >> without --prog
    exe_file,         \* the words of the executable that read_exe reads
    content_by_type,  \* what read_exe returned: the content by block type, or
                      \* the exception it raised
    next_instr_bytes, \* the first four bytes of a TargetInfo's next_instr_bytes
    instr_tests,      \* what the tests of the next instruction returned
    status_str,       \* what get_status_str returned or raised for the UI
    source_file,      \* the source file get_source_view opens: its lines, or "unreadable"
    source_view,      \* what get_source_view returned or raised
    peer_closed,      \* the peer has closed its end of the socket
    empty_reads,      \* history: socket.recv calls of the call in progress that returned b''
    stabs_data,       \* content of the HUNK_DEBUG block handed to from_stabs_data
    stabs_read        \* what from_stabs_data read from stabs_data

connVars == << next_seqnum, wire_out, wire_in, rbuf, pc, ret, calls, last_sent,
               pending, acks_sent, acks_rcvd, frames_written, frames_read >>

cmdVars == << cmd, raised, events, agent_seq, agent_owes, stop_sent >>

exeVars == << exe_file, content_by_type >>

instrVars == << next_instr_bytes, instr_tests, status_str >>

restVars == << source_file, source_view, peer_closed, empty_reads, stabs_data, stabs_read >>

cliVars == << dbg_target_info, dbg_program, stored_args, cli, result, session,
             server_conn, stabs, exeVars, instrVars, restVars >>

vars == << connVars, cmdVars, cliVars >>

\* get_source_view has not been called
NoView == [returned |-> FALSE, err |-> "", header |-> << >>, lines |-> << >>]

\* from_stabs_data has not been called
NoStabsRead == [returned |-> FALSE, err |-> "", num_read |-> 0, stabs |-> << >>]

\* get_status_str has not been called
NoStatus == [text |-> "", nums |-> << >>, err |-> ""]

\* the next instruction has not been looked at
NoInstr == [jsr |-> FALSE, rts |-> FALSE, syscall |-> FALSE, offset |-> -1]

\* read_exe has not been called
NoContent == [content |-> << >>, err |-> "", returned |-> FALSE]

NoRet == [ok |-> TRUE, type |-> -1, data |-> << >>]

\* no ServerCommand object yet; target_info is << >> for None and << t >>
\* for a TargetInfo t
NoCmd == [msg_type |-> -1, data |-> << >>, error_code |-> -1,
          target_info |-> << >>]

\* no CLI command inside an execute(); the locals are those of step, next
\* and get_call_stack
NoCli ==
    [command |-> "", stage |-> "", lo |-> 0, hi |-> 0, frame_ptr |-> << >>,
     program_counter |-> 0, stack_frames |-> << >>, prev_frame_ptr |-> << >>]

\* a result string: its text, the command it names, the numbers formatted
\* into it; NoMsg stands for None
Msg(text, about, nums) == [text |-> text, about |-> about, nums |-> nums]

NoMsg == Msg("None", "", << >>)

\* process_command has not returned anything; msg and ti are the two
\* members of the tuple it returns
NoResult == [msg |-> NoMsg, ti |-> << >>]

InitCmdVars ==
    /\ cmd = NoCmd
    /\ raised = ""
    /\ events = << >>
    /\ agent_seq = 0
    /\ agent_owes = 0
    /\ stop_sent = << >>

\* the debugger object and the CLI before the first line is read
InitCliVars ==
    /\ dbg_target_info = << >>
    /\ stored_args = << >>
    /\ cli = NoCli
    /\ result = NoResult
    /\ session = "prompt"
    /\ server_conn = "dbg"
    /\ stabs = << >>
    /\ exe_file = << >>
    /\ content_by_type = NoContent
    /\ next_instr_bytes = << >>
    /\ instr_tests = NoInstr
    /\ status_str = NoStatus
    /\ source_file = << >>
    /\ source_view = NoView
    /\ peer_closed = FALSE
    /\ empty_reads = 0
    /\ stabs_data = << >>
    /\ stabs_read = NoStabsRead

(***************************************************************************)
(* The socket. socket.recv(MAX_FRAME_SIZE) blocks until bytes are there    *)
(* and returns those that have arrived, at most MAX_FRAME_SIZE of them.    *)
(* How many have arrived depends on timing: the lengths tried are the      *)
(* whole pending stream, every end of a frame in it, and a partial read    *)
(* in the first passes of a call (buffer is what the call has read so far).*)
(***************************************************************************)
ReadLengths(stream, buffer) ==
    { k \in 1 .. Len(stream) :
        /\ k <= MAX_FRAME_SIZE
        /\ \/ k = Len(stream)
           \/ stream[k] = SLIP_END
           \/ k = PartialRead /\ Len(buffer) < MaxPartialReads * PartialRead }

(***************************************************************************)
(* ServerConnection.send_message as a step, from sequence number seqnum:   *)
(* the frame goes to the socket, then the sequence number moves on for     *)
(* ACK / NACK.                                                             *)
(***************************************************************************)
send_message(seqnum, msg_type, data) ==
    /\ wire_out' = wire_out \o SendFrame(seqnum, msg_type, data)
    /\ next_seqnum' = SeqAfterSend(seqnum, msg_type)
    /\ last_sent' = << [seqnum |-> seqnum, type |-> msg_type, data |-> data] >>
    /\ acks_sent' = IF IsAckOrNack(msg_type) THEN acks_sent + 1 ELSE acks_sent

(***************************************************************************)
(* One pass of recv_message's loop: read k bytes, append them to the       *)
(* call's buffer, look for the end byte. The buffer is a local of the      *)
(* call: what follows the first frame in it is gone when the call ends.    *)
(***************************************************************************)
RecvBuffer(k) == rbuf \o SubSeq(wire_in, 1, k)

RecvDone(k) == FrameComplete(RecvBuffer(k))

\* the socket and the buffer after the pass
recv_read(k) ==
    /\ wire_in' = SubSeq(wire_in, k + 1, Len(wire_in))
    /\ rbuf' = IF RecvDone(k) THEN << >> ELSE RecvBuffer(k)
    /\ pending' = SubSeq(pending,
                         CountByte(SubSeq(wire_in, 1, k), SLIP_END) + 1,
                         Len(pending))
    /\ frames_read' = IF RecvDone(k) THEN frames_read + 1 ELSE frames_read

\* the result of the call that ends with this pass
RecvOutcome(k) == RecvResult(RecvBuffer(k), next_seqnum)

RetOf(r) == [ok |-> r.ok, type |-> r.type, data |-> r.data]

AcksRcvdAfter(r) ==
    IF r.ok /\ IsAckOrNack(r.type) THEN acks_rcvd + 1 ELSE acks_rcvd

(***************************************************************************)
(* The peer's side of the socket.                                          *)
(***************************************************************************)
\* the peer writes a frame: a message, encoded as the protocol says
peer_write(seqnum, msg_type, data) ==
    LET frame == SendFrame(seqnum, msg_type, data)
    IN  /\ wire_in' = wire_in \o frame
        /\ pending' = Append(pending,
                             [seqnum |-> seqnum % 65536, type |-> msg_type,
                              data |-> data, frame |-> frame])
        /\ frames_written' = frames_written + 1

\* a SLIP receiver that reads the frame byte by byte: ESC ESCAPED_END is
\* END, ESC ESCAPED_ESC is ESC, and an ESC before any other byte stands for
\* itself
RECURSIVE LenientDecode(_, _)
LenientDecode(body, i) ==
    IF i > Len(body) THEN << >>
    ELSE IF i < Len(body) /\ body[i] = SLIP_ESC /\ body[i + 1] = SLIP_ESCAPED_END
         THEN << SLIP_END >> \o LenientDecode(body, i + 2)
    ELSE IF i < Len(body) /\ body[i] = SLIP_ESC /\ body[i + 1] = SLIP_ESCAPED_ESC
         THEN << SLIP_ESC >> \o LenientDecode(body, i + 2)
    ELSE << body[i] >> \o LenientDecode(body, i + 1)

\* the frame of a peer that escapes the header as the protocol says and
\* puts the bytes of body on the wire as they are
RawFrame(seqnum, msg_type, body) ==
    SlipEncode(HeaderBytes(seqnum, msg_type, Len(LenientDecode(body, 1))))
        \o body \o << SLIP_END >>

\* the peer writes such a frame
peer_write_raw(seqnum, msg_type, body) ==
    /\ wire_in' = wire_in \o RawFrame(seqnum, msg_type, body)
    /\ pending' = Append(pending,
                         [seqnum |-> seqnum % 65536, type |-> msg_type,
                          data |-> LenientDecode(body, 1),
                          frame |-> RawFrame(seqnum, msg_type, body)])
    /\ frames_written' = frames_written + 1

(***************************************************************************)
(* Connection level: a caller that makes any sequence of send_message and  *)
(* recv_message calls, and a peer that writes any frames.                  *)
(***************************************************************************)
\* what a connection-level caller sends: both acknowledgements and two
\* requests, with and without a payload
ConnSends ==
    { << MSG_ACK, << >> >>, << MSG_NACK, << 3 >> >>,
      << MSG_RUN, << >> >>, << MSG_PEEK_MEM, << 0, 0, 0, 4, 0, 4 >> >> }

\* message types the peer writes at connection level
PeerTypes == { MSG_ACK, MSG_NACK, MSG_TARGET_STOPPED }

\* the payload of the peer's frames at connection level
PeerPayload == << 3 >>

InitConn ==
    /\ next_seqnum = 0
    /\ wire_out = << >>
    /\ wire_in = << >>
    /\ rbuf = << >>
    /\ pc = "idle"
    /\ ret = NoRet
    /\ calls = 0
    /\ last_sent = << >>
    /\ pending = << >>
    /\ acks_sent = 0
    /\ acks_rcvd = 0
    /\ frames_written = 0
    /\ frames_read = 0
    /\ InitCmdVars
    /\ InitCliVars
    /\ dbg_program = << >>

\* the peer reads what the host wrote before the host's next call: nothing
\* the host does depends on wire_out
CallSend(msg_type, data) ==
    /\ pc = "idle"
    /\ wire_out = << >>
    /\ calls < MaxCalls
    /\ send_message(next_seqnum, msg_type, data)
    /\ calls' = calls + 1
    /\ UNCHANGED << wire_in, rbuf, pc, ret, pending, acks_rcvd, frames_written,
                    frames_read >>
    /\ UNCHANGED << cmdVars, cliVars >>

CallRecv ==
    /\ pc = "idle"
    /\ wire_out = << >>
    /\ calls < MaxCalls
    /\ pc' = "recv"
    /\ rbuf' = << >>
    /\ calls' = calls + 1
    /\ UNCHANGED << next_seqnum, wire_out, wire_in, ret, last_sent, pending,
                    acks_sent, acks_rcvd, frames_written, frames_read >>
    /\ UNCHANGED << cmdVars, cliVars >>

RecvRead ==
    /\ pc = "recv"
    /\ \E k \in ReadLengths(wire_in, rbuf) :
        /\ recv_read(k)
        /\ IF RecvDone(k)
           THEN /\ next_seqnum' = RecvOutcome(k).seqnum
                /\ ret' = RetOf(RecvOutcome(k))
                /\ acks_rcvd' = AcksRcvdAfter(RecvOutcome(k))
                /\ pc' = "idle"
           ELSE UNCHANGED << next_seqnum, ret, acks_rcvd, pc >>
    /\ UNCHANGED << wire_out, calls, last_sent, acks_sent, frames_written >>
    /\ UNCHANGED << cmdVars, cliVars >>

\* the peer writes one frame; its sequence number is the one the host
\* expects, or the one after it
PeerWrite ==
    /\ frames_written < MaxAgentFrames
    /\ \E t \in PeerTypes, s \in { next_seqnum, next_seqnum + 1 } :
        peer_write(s, t, PeerPayload)
    /\ UNCHANGED << next_seqnum, wire_out, rbuf, pc, ret, calls, last_sent,
                    acks_sent, acks_rcvd, frames_read >>
    /\ UNCHANGED << cmdVars, cliVars >>

\* the peer reads what the host wrote
PeerRead ==
    /\ wire_out # << >>
    /\ wire_out' = << >>
    /\ last_sent' = << >>
    /\ UNCHANGED << next_seqnum, wire_in, rbuf, pc, ret, calls, pending,
                    acks_sent, acks_rcvd, frames_written, frames_read >>
    /\ UNCHANGED << cmdVars, cliVars >>

NextConn ==
    \/ \E m \in ConnSends : CallSend(m[1], m[2])
    \/ CallRecv
    \/ RecvRead
    \/ PeerWrite
    \/ PeerRead

SpecConn == InitConn /\ [][NextConn]_vars

(***************************************************************************)
(* Claims at connection level.                                             *)
(***************************************************************************)
\* the type of the message a step hands to the socket, -1 when it sends none
SentType ==
    IF Len(wire_out') > Len(wire_out)
    THEN ParseMessage(SlipDecode(
             SubSeq(wire_out', Len(wire_out) + 1, Len(wire_out')))).type
    ELSE -1

\* a step in which a recv_message call ends
RecvEnds == frames_read' = frames_read + 1

\* C1: next_seq starts at 0 and always equals the number of ACK/NACK
\* messages sent plus the number of ACK/NACK messages received; a step that
\* sends a request or receives a TARGET_STOPPED leaves it unchanged; it
\* never decreases.
C1_SeqCountsAcks ==
    /\ [](next_seqnum = acks_sent + acks_rcvd)
    /\ [][next_seqnum' >= next_seqnum]_vars
    /\ [][(SentType # -1 /\ ~IsAckOrNack(SentType))
            => next_seqnum' = next_seqnum]_vars
    /\ [][(RecvEnds /\ ret'.ok /\ ret'.type = MSG_TARGET_STOPPED)
            => next_seqnum' = next_seqnum]_vars

\* C1's case: four calls that sent one ACK/NACK and one request and
\* received one ACK/NACK and then a TARGET_STOPPED
C1_Witness ==
    /\ calls = 4 /\ pc = "idle"
    /\ acks_sent = 1 /\ acks_rcvd = 1 /\ frames_read = 2
    /\ ret.ok /\ ret.type = MSG_TARGET_STOPPED
    /\ next_seqnum = 2

\* C3: frames that arrive in the same socket read are returned by
\* successive recv_message calls, none is dropped: every frame the peer
\* wrote was handed to a recv_message call or is still waiting to be read.
C3_NoFrameDropped == frames_written = frames_read + Len(pending)

\* the bytes up to the first end-of-frame byte that the call in progress has
\* or will read are a frame exactly as the peer wrote it (no byte of it went
\* with the leftover of an earlier call)
HeadFrameWhole ==
    LET stream == rbuf \o wire_in
        m == Head(pending)
    IN  /\ pending # << >>
        /\ SubSeq(stream, 1, Find(stream, SLIP_END) + 1) = m.frame

\* C5: a recv_message call that meets an ACK / NACK whose sequence number
\* differs from next_seq raises and leaves next_seq unchanged; a message
\* of another type is returned, with its payload, whatever its sequence
\* number is, and next_seq is unchanged.
C5_SeqChecked ==
    [][(RecvEnds /\ HeadFrameWhole) =>
        LET m == Head(pending)
        IN  /\ (IsAckOrNack(m.type) /\ m.seqnum # next_seqnum)
                => (~ret'.ok /\ next_seqnum' = next_seqnum)
            /\ ~IsAckOrNack(m.type)
                => (/\ ret'.ok /\ ret'.type = m.type /\ ret'.data = m.data
                    /\ next_seqnum' = next_seqnum)]_vars

\* C5's case: a call raised (at connection level only a wrong sequence
\* number makes one raise) after another had returned a message
C5_Witness ==
    /\ ~ret.ok /\ frames_read = 2 /\ pc = "idle"
    /\ next_seqnum = acks_rcvd /\ acks_rcvd = 1

(***************************************************************************)
(* The SLIP codec on its own. Encoding: send_message calls with every      *)
(* message type, payloads over the special bytes, and sequence numbers     *)
(* whose header bytes are special.                                         *)
(***************************************************************************)
CodecBytes == { 0, SLIP_END, SLIP_ESC, SLIP_ESCAPED_END, SLIP_ESCAPED_ESC }

RECURSIVE SeqsUpTo(_, _)
SeqsUpTo(S, n) ==
    IF n = 0 THEN { << >> }
    ELSE LET shorter == SeqsUpTo(S, n - 1)
         IN  shorter \cup { Append(q, b) : q \in shorter, b \in S }

\* payloads whose length byte is itself SLIP_END or SLIP_ESC
LongPayloads == { [i \in 1 .. n |-> 65] : n \in { SLIP_END, SLIP_ESC } }

CodecPayloads == SeqsUpTo(CodecBytes, MaxPayloadLen) \cup LongPayloads

\* sequence numbers a long session reaches: 0xC0, 0xDB, 0xDBDC, 0xC0DB, 0xFFFF
SeqSamples == { 0, 192, 219, 56284, 49371, 65535 }

InitEncode ==
    /\ next_seqnum \in SeqSamples
    /\ wire_out = << >>
    /\ wire_in = << >>
    /\ rbuf = << >>
    /\ pc = "idle"
    /\ ret = NoRet
    /\ calls = 0
    /\ last_sent = << >>
    /\ pending = << >>
    /\ acks_sent = 0
    /\ acks_rcvd = 0
    /\ frames_written = 0
    /\ frames_read = 0
    /\ InitCmdVars
    /\ InitCliVars
    /\ dbg_program = << >>

NextEncode ==
    \/ \E t \in MsgTypes, d \in CodecPayloads : CallSend(t, d)
    \/ PeerRead

SpecEncode == InitEncode /\ [][NextEncode]_vars

\* C7: decoding the frame send_message wrote, the way recv_message decodes,
\* gives back the header fields (the sequence number as the 16-bit header
\* field holds it) and the payload of the message, and the frame holds
\* SLIP_END only as its last byte.
C7_SlipRoundTrip ==
    wire_out # << >> =>
        LET m == ParseMessage(SlipDecode(wire_out))
            sent == last_sent[1]
        IN  /\ ~m.short
            /\ m.seqnum = sent.seqnum % 65536
            /\ m.checksum = CHECKSUM
            /\ m.type = sent.type
            /\ m.length = Len(sent.data)
            /\ m.data = sent.data
            /\ Find(wire_out, SLIP_END) = Len(wire_out) - 1

\* C7's case: a frame whose sequence number is 0xDBDC and whose payload is
\* END followed by the pair ESC, ESCAPED_END
C7_Witness ==
    /\ wire_out # << >>
    /\ last_sent[1].seqnum = 56284
    /\ last_sent[1].data = << SLIP_ESC, SLIP_ESCAPED_END >>
    /\ Len(wire_out) > SizeofProtoMessage + 3

(***************************************************************************)
(* Decoding: recv_message calls on frames whose body the peer wrote byte   *)
(* by byte, escape sequences well formed or not.                           *)
(***************************************************************************)
\* bytes of a raw frame body: every byte that can follow an ESC but END
RawBytes == { 0, SLIP_ESC, SLIP_ESCAPED_END, SLIP_ESCAPED_ESC }

RawBodies == SeqsUpTo(RawBytes, MaxPayloadLen)

\* the peer writes the next raw frame once the host has taken the last
PeerWriteRaw ==
    /\ frames_written < MaxAgentFrames
    /\ wire_in = << >>
    /\ \E t \in { MSG_ACK, MSG_TARGET_STOPPED },
          s \in { next_seqnum, next_seqnum + 1 },
          body \in RawBodies :
        peer_write_raw(s, t, body)
    /\ UNCHANGED << next_seqnum, wire_out, rbuf, pc, ret, calls, last_sent,
                    acks_sent, acks_rcvd, frames_read >>
    /\ UNCHANGED << cmdVars, cliVars >>

NextDecode == PeerWriteRaw \/ CallRecv \/ RecvRead

SpecDecode == InitConn /\ [][NextDecode]_vars

\* an ESC that is followed by neither ESCAPED_END nor ESCAPED_ESC
HasStrayEsc(frame) ==
    \E i \in 1 .. Len(frame) - 1 :
        /\ frame[i] = SLIP_ESC
        /\ frame[i + 1] \notin { SLIP_ESCAPED_END, SLIP_ESCAPED_ESC }

\* a recv_message call ends on a whole frame that holds a stray ESC
RecvEndsOnStrayEsc ==
    RecvEnds /\ HeadFrameWhole /\ HasStrayEsc(Head(pending).frame)

TS_IDLE == 0
TS_RUNNING == 1
TS_SINGLE_STEPPING == 2
TS_EXITED == 4
TS_KILLED == 8
TS_STOPPED_BY_BPOINT == 16
TS_STOPPED_BY_ONE_SHOT_BPOINT == 32
TS_STOPPED_BY_SINGLE_STEP == 64
TS_STOPPED_BY_EXCEPTION == 128
TS_ERROR == 65536

\* sizeof(TargetInfo): 8 + sizeof(TaskContext) 74 + 12 + 64 + 32
\* + sizeof(Breakpoint) 14
SizeofTargetInfo == 204

\* errors.ErrorCodes: ERROR_OK .. ERROR_OPEN_LIB_FAILED
ERROR_OK == 0
ERROR_UNKNOWN_BREAKPOINT == 3
ERROR_OPEN_LIB_FAILED == 10
ErrorCodes == ERROR_OK .. ERROR_OPEN_LIB_FAILED

Zeros(n) == [i \in 1 .. n |-> 0]

\* bytes(TargetInfo): the structure as the agent puts it on the wire
EncodeTargetInfo(ti) ==
    U32Bytes(ti.initial_pc) \o Zeros(4)                       \* initial_sp
        \o Zeros(4) \o U32Bytes(ti.exc_num) \o Zeros(2)       \* reg_sp, reg_sr
        \o U32Bytes(ti.reg_pc) \o Zeros(32) \o Zeros(20)      \* reg_d, a0-a4
        \o ti.reg_a5 \o Zeros(4)                              \* a6
        \o U32Bytes(ti.target_state) \o U32Bytes(ti.exit_code)
        \o U32Bytes(ti.error_code)
        \o U16Bytes(ti.instr) \o Zeros(62)                    \* next_instr_bytes
        \o Zeros(32)                                          \* top_stack_dwords
        \o U32Bytes(ti.bpoint_num) \o U32Bytes(ti.bpoint_address) \o Zeros(2)
        \o U32Bytes(ti.bpoint_hit_count)

\* TargetInfo.from_buffer(data) for len(data) >= sizeof(TargetInfo): each
\* field read at its offset
DecodeTargetInfo(data) ==
    [initial_pc |-> U32At(data, 1),
     exc_num |-> U32At(data, 13),
     reg_pc |-> U32At(data, 19),
     reg_a5 |-> SubSeq(data, 75, 78),
     target_state |-> U32At(data, 83),
     exit_code |-> U32At(data, 87),
     error_code |-> U32At(data, 91),
     instr |-> U16At(data, 95),
     bpoint_num |-> U32At(data, 191),
     bpoint_address |-> U32At(data, 195),
     bpoint_hit_count |-> U32At(data, 201)]

(***************************************************************************)
(* ServerCommand.execute (server.py 168-194), between its blocking reads.  *)
(***************************************************************************)
RunCausing == { MSG_RUN, MSG_STEP, MSG_CONT, MSG_KILL }

\* the event a finished recv_message call adds to the history of execute
EventOf(r) ==
    IF ~r.ok THEN "recv_error"
    ELSE IF r.type = MSG_ACK THEN "recv_ack"
    ELSE IF r.type = MSG_NACK THEN "recv_nack"
    ELSE IF r.type = MSG_TARGET_STOPPED THEN "recv_stop"
    ELSE "recv_other"

\* mutant: after a NACK to a run-causing request execute goes on to wait for
\* the stop notification
ExecAfterReply_NackWaits(c, r) ==
    IF ~r.ok \/ ~IsAckOrNack(r.type)
    THEN [cmd |-> c, raised |-> "ConnectionError", next |-> "idle"]
    ELSE IF r.type = MSG_ACK \/ c.msg_type \in RunCausing
    THEN [cmd |-> [c EXCEPT !.error_code = 0, !.data = r.data],
          raised |-> "",
          next |-> IF c.msg_type \in RunCausing THEN "stop" ELSE "idle"]
    ELSE [cmd |-> [c EXCEPT !.error_code = r.data[1]],
          raised |-> "ServerCommandError", next |-> "idle"]

\* lines 171-182 for command object c once the first recv_message call
\* ended with r: the object, the exception raised, and where execute is next
\* ("stop": in the second recv_message call, "idle": left)
ExecAfterReply(c, r) ==
    IF ~r.ok
    THEN [cmd |-> c, raised |-> "ConnectionError", next |-> "idle"]
    ELSE IF ~IsAckOrNack(r.type)
    THEN [cmd |-> c, raised |-> "ConnectionError", next |-> "idle"]
    ELSE IF r.type = MSG_ACK
    THEN [cmd |-> [c EXCEPT !.error_code = 0, !.data = r.data],
          raised |-> "",
          next |-> IF c.msg_type \in RunCausing THEN "stop" ELSE "idle"]
    \* data[0] of an empty payload is an IndexError
    ELSE IF r.data = << >>
    THEN [cmd |-> c, raised |-> "IndexError", next |-> "idle"]
    \* ErrorCodes(code).name in the message is a ValueError for a code that
    \* is no member of the enumeration
    ELSE [cmd |-> [c EXCEPT !.error_code = r.data[1]],
          raised |-> IF r.data[1] \in ErrorCodes THEN "ServerCommandError"
                     ELSE "ValueError",
          next |-> "idle"]

\* mutant: the stop notification is not acknowledged
ExecAfterStop_NoAck(c, r) ==
    IF r.ok /\ r.type = MSG_TARGET_STOPPED /\ Len(r.data) >= SizeofTargetInfo
    THEN [cmd |-> [c EXCEPT !.target_info = << DecodeTargetInfo(r.data) >>],
          raised |-> "", ack |-> FALSE]
    ELSE [cmd |-> c, raised |-> "ConnectionError", ack |-> FALSE]

\* mutant: whatever comes after the ACK is acknowledged
ExecAfterStop_AckAnything(c, r) ==
    IF r.ok /\ r.type = MSG_TARGET_STOPPED /\ Len(r.data) >= SizeofTargetInfo
    THEN [cmd |-> [c EXCEPT !.target_info = << DecodeTargetInfo(r.data) >>],
          raised |-> "", ack |-> TRUE]
    ELSE [cmd |-> c, raised |-> "ConnectionError", ack |-> r.ok]

\* lines 184-194 once the second recv_message call ended with r: the
\* object, the exception raised, and whether the ACK was sent (it is sent
\* before the payload is decoded; from_buffer raises ValueError on a payload
\* shorter than the structure)
ExecAfterStop(c, r) ==
    IF ~r.ok
    THEN [cmd |-> c, raised |-> "ConnectionError", ack |-> FALSE]
    ELSE IF r.type = MSG_TARGET_STOPPED
    THEN IF Len(r.data) >= SizeofTargetInfo
         THEN [cmd |-> [c EXCEPT !.target_info = << DecodeTargetInfo(r.data) >>],
               raised |-> "", ack |-> TRUE]
         ELSE [cmd |-> c, raised |-> "ValueError", ack |-> TRUE]
    ELSE [cmd |-> c, raised |-> "ConnectionError", ack |-> FALSE]

\* execute up to its first blocking read: a fresh command object, the
\* request sent
exec_begin(msg_type, data) ==
    /\ send_message(next_seqnum, msg_type, data)
    /\ cmd' = [msg_type |-> msg_type, data |-> data, error_code |-> -1,
               target_info |-> << >>]
    /\ raised' = ""
    /\ events' = << "send_request" >>
    /\ rbuf' = << >>
    /\ ret' = NoRet
    /\ stop_sent' = << >>

\* the first recv_message call reads k bytes; if that ends the call, execute
\* goes on to its second blocking read ("stop") or leaves ("idle")
exec_reply(k) ==
    /\ recv_read(k)
    /\ IF RecvDone(k)
       THEN LET r == RecvOutcome(k)
                a == ExecAfterReply(cmd, r)
            IN  /\ next_seqnum' = r.seqnum
                /\ ret' = RetOf(r)
                /\ acks_rcvd' = AcksRcvdAfter(r)
                /\ cmd' = a.cmd
                /\ raised' = a.raised
                /\ events' = Append(events, EventOf(r))
                /\ pc' = a.next
       ELSE UNCHANGED << next_seqnum, ret, acks_rcvd, cmd, raised, events, pc >>
    /\ UNCHANGED << wire_out, last_sent, acks_sent >>

\* the second recv_message call reads k bytes; if that ends the call,
\* execute acknowledges a stop notification and leaves
exec_stop(k) ==
    /\ recv_read(k)
    /\ IF RecvDone(k)
       THEN LET r == RecvOutcome(k)
                a == ExecAfterStop(cmd, r)
            IN  /\ ret' = RetOf(r)
                /\ acks_rcvd' = AcksRcvdAfter(r)
                /\ cmd' = a.cmd
                /\ raised' = a.raised
                /\ pc' = "idle"
                /\ IF a.ack
                   THEN /\ send_message(r.seqnum, MSG_ACK, << >>)
                        /\ events' = events \o << EventOf(r), "send_ack" >>
                   ELSE /\ next_seqnum' = r.seqnum
                        /\ events' = Append(events, EventOf(r))
                        /\ UNCHANGED << wire_out, last_sent, acks_sent >>
       ELSE UNCHANGED << next_seqnum, ret, acks_rcvd, cmd, raised, events,
                         wire_out, last_sent, acks_sent, pc >>

(***************************************************************************)
(* The agent, as the protocol describes it, and the ways it can break the  *)
(* protocol that execute guards against.                                   *)
(***************************************************************************)
\* the request the agent finds on the socket
Request == ParseMessage(SlipDecode(wire_out))

\* the socket once the agent has taken the first frame from it
AfterRequest == SubSeq(wire_out, Find(wire_out, SLIP_END) + 2, Len(wire_out))

\* stop notifications: at a breakpoint (the address bytes are SLIP's
\* special bytes), exited, killed
StopAtBpoint ==
    [initial_pc |-> 12632256, exc_num |-> 0, reg_pc |-> 12632292,
     reg_a5 |-> << 255, 255, 255, 255 >>, target_state |-> TS_RUNNING + TS_STOPPED_BY_BPOINT,
     exit_code |-> 0, error_code |-> 0, instr |-> 20081,
     bpoint_num |-> 1, bpoint_address |-> 12632292, bpoint_hit_count |-> 219]

StopExited ==
    [StopAtBpoint EXCEPT !.target_state = TS_EXITED, !.exit_code = 192,
                         !.bpoint_num = 0, !.bpoint_address = 0,
                         !.bpoint_hit_count = 0]

StopKilled == [StopExited EXCEPT !.target_state = TS_KILLED, !.exit_code = 0]

\* the end marker of the chain of frame pointers, 0xffffffff
EndOfFrames == << 255, 255, 255, 255 >>

\* frame pointers and a return address in the target's memory
FrameA == << 0, 192, 16, 0 >>

FrameB == << 0, 192, 16, 32 >>

ReturnAddr == 12632264

\* after a single step, in front of a JSR (xxx).L, inside a function with
\* a frame
StopAtJsr ==
    [StopAtBpoint EXCEPT !.reg_pc = 12632296, !.reg_a5 = FrameA,
                         !.target_state = TS_RUNNING + TS_SINGLE_STEPPING
                                              + TS_STOPPED_BY_SINGLE_STEP,
                         !.instr = 20153,
                         !.bpoint_num = 0, !.bpoint_address = 0,
                         !.bpoint_hit_count = 0]

\* after a single step, at the first instruction of the last line of the
\* sample program (offset 44), in a function without a frame
StopAtLastLine ==
    [StopAtJsr EXCEPT !.reg_pc = 12632300, !.reg_a5 = EndOfFrames,
                      !.instr = 20081]

CmdStops ==
    { StopAtBpoint, StopAtJsr, StopAtLastLine, StopExited, StopKilled }

\* the error code of the agent's NACKs
NackCodes == { ERROR_UNKNOWN_BREAKPOINT }

\* the payloads of the ACK to a request: nothing, but for PEEK_MEM the
\* bytes asked for. Eight bytes at a frame pointer are the previous frame
\* pointer (the end marker or another frame) and the return address.
AckData(req) ==
    IF req.type # MSG_PEEK_MEM THEN { << >> }
    ELSE IF Len(req.data) = 6 /\ U16At(req.data, 5) = 8
    THEN { EndOfFrames \o U32Bytes(ReturnAddr), FrameB \o U32Bytes(ReturnAddr) }
    ELSE { << 7, 128, 7, 248 >> }

\* the agent's answers to a request: ACK, NACK with an error code, and as
\* violations of the protocol an ACK with a wrong sequence number and a
\* stop notification in place of the answer
AgentReplies(req) ==
    { [seqnum |-> agent_seq, type |-> MSG_ACK, data |-> d] : d \in AckData(req) }
        \cup { [seqnum |-> agent_seq, type |-> MSG_NACK, data |-> << c >>] :
                 c \in NackCodes }
        \cup { [seqnum |-> agent_seq + 1, type |-> MSG_ACK, data |-> << >>],
               [seqnum |-> agent_seq, type |-> MSG_TARGET_STOPPED,
                data |-> EncodeTargetInfo(StopKilled)] }

\* the agent takes a request from the socket and answers it
AgentReply ==
    /\ wire_out # << >>
    /\ ~IsAckOrNack(Request.type)
    /\ \E m \in AgentReplies(Request) :
        /\ peer_write(m.seqnum, m.type, m.data)
        /\ agent_seq' = IF IsAckOrNack(m.type) THEN agent_seq + 1 ELSE agent_seq
        /\ agent_owes' = IF m.type = MSG_ACK /\ Request.type \in RunCausing
                         THEN 1 ELSE 0
    /\ wire_out' = AfterRequest
    /\ last_sent' = IF AfterRequest = << >> THEN << >> ELSE last_sent
    /\ UNCHANGED << next_seqnum, rbuf, pc, ret, calls, acks_sent, acks_rcvd,
                    frames_read, cmd, raised, events, stop_sent >>
    /\ UNCHANGED cliVars

\* the target has stopped: the agent writes the notification, one of stops
AgentStopOf(stops) ==
    /\ agent_owes = 1
    /\ \E ti \in stops :
        /\ peer_write(agent_seq, MSG_TARGET_STOPPED, EncodeTargetInfo(ti))
        /\ stop_sent' = << ti >>
    /\ agent_owes' = 2
    /\ UNCHANGED << next_seqnum, wire_out, rbuf, pc, ret, calls, last_sent,
                    acks_sent, acks_rcvd, frames_read, cmd, raised, events,
                    agent_seq >>
    /\ UNCHANGED cliVars

AgentStop == AgentStopOf(CmdStops)

\* a violation of the protocol: after its ACK the agent writes a message
\* that is no stop notification
AgentStopBad ==
    /\ agent_owes = 1
    /\ \E t \in { MSG_ACK, MSG_INIT } :
        /\ peer_write(agent_seq, t, << >>)
        /\ agent_seq' = IF IsAckOrNack(t) THEN agent_seq + 1 ELSE agent_seq
    /\ agent_owes' = 0
    /\ UNCHANGED << next_seqnum, wire_out, rbuf, pc, ret, calls, last_sent,
                    acks_sent, acks_rcvd, frames_read, cmd, raised, events,
                    stop_sent >>
    /\ UNCHANGED cliVars

\* the agent takes the host's ACK from the socket
AgentReadAck ==
    /\ wire_out # << >>
    /\ IsAckOrNack(Request.type)
    /\ wire_out' = AfterRequest
    /\ last_sent' = IF AfterRequest = << >> THEN << >> ELSE last_sent
    /\ agent_seq' = agent_seq + 1
    /\ agent_owes' = 0
    /\ UNCHANGED << next_seqnum, wire_in, rbuf, pc, ret, calls, pending,
                    acks_sent, acks_rcvd, frames_written, frames_read,
                    cmd, raised, events, stop_sent >>
    /\ UNCHANGED cliVars

(***************************************************************************)
(* Command level: a caller that executes any sequence of server commands,  *)
(* each after the one before has returned or raised ServerCommandError.    *)
(* Any other exception ends the session (cwdebug.py 49-53).                *)
(***************************************************************************)
\* SrvRun, SrvSingleStep, SrvContinue, SrvKill, SrvClearBreakpoint(2),
\* SrvPeekMem(4, 4)
CmdRequests ==
    { << MSG_RUN, << >> >>, << MSG_STEP, << >> >>, << MSG_CONT, << >> >>,
      << MSG_KILL, << >> >>, << MSG_CLEAR_BPOINT, U32Bytes(2) >>,
      << MSG_PEEK_MEM, U32Bytes(4) \o U16Bytes(4) >> }

Execute(msg_type, data) ==
    /\ pc = "idle"
    /\ wire_out = << >>
    /\ calls < MaxExecs
    /\ raised \in { "", "ServerCommandError" }
    /\ exec_begin(msg_type, data)
    /\ pc' = "reply"
    /\ calls' = calls + 1
    /\ UNCHANGED << wire_in, pending, acks_rcvd, frames_written,
                    frames_read, agent_seq, agent_owes >>
    /\ UNCHANGED cliVars

ExecuteReply ==
    /\ pc = "reply"
    /\ \E k \in ReadLengths(wire_in, rbuf) : exec_reply(k)
    /\ UNCHANGED << calls, frames_written, agent_seq, agent_owes, stop_sent >>
    /\ UNCHANGED cliVars

ExecuteStop ==
    /\ pc = "stop"
    /\ \E k \in ReadLengths(wire_in, rbuf) : exec_stop(k)
    /\ UNCHANGED << calls, frames_written, agent_seq, agent_owes, stop_sent >>
    /\ UNCHANGED cliVars

NextCmd ==
    \/ \E m \in CmdRequests : Execute(m[1], m[2])
    \/ ExecuteReply
    \/ ExecuteStop
    \/ AgentReply
    \/ AgentStop
    \/ AgentStopBad
    \/ AgentReadAck

SpecCmd == InitConn /\ [][NextCmd]_vars

(***************************************************************************)
(* Claims at command level.                                                *)
(***************************************************************************)
Quadruple == << "send_request", "recv_ack", "recv_stop", "send_ack" >>

\* a recv_message call of execute ends on a whole frame of the agent
ReplyEnds == pc = "reply" /\ RecvEnds /\ HeadFrameWhole

StopEnds == pc = "stop" /\ RecvEnds /\ HeadFrameWhole

\* C2: for RUN, STEP, CONT and KILL that the agent ACKs, what execute sends
\* and receives is, in this order, the request, the ACK, one stop
\* notification and the ACK for it; until it has left it sends nothing but
\* that ACK; it returns only with all four done, and its target_info is then
\* the TargetInfo the agent put into the notification.
C2_RunQuadruple ==
    /\ []((/\ cmd.msg_type \in RunCausing
           /\ Len(events) >= 3
           /\ events[2] = "recv_ack"
           /\ events[3] = "recv_stop") => events = Quadruple)
    /\ []((cmd.msg_type \in RunCausing /\ pc = "idle" /\ raised = "")
            => (/\ events = Quadruple
                /\ stop_sent # << >>
                /\ cmd.target_info = stop_sent))
    /\ [][(pc \in { "reply", "stop" }) => SentType \in { -1, MSG_ACK }]_vars
    /\ [][SentType = MSG_ACK
            => (StopEnds /\ Head(pending).type = MSG_TARGET_STOPPED)]_vars

\* C2's case: a STEP has returned after the four events, with the
\* TargetInfo of the breakpoint stop
C2_Witness ==
    /\ pc = "idle" /\ raised = "" /\ cmd.msg_type = MSG_STEP
    /\ events = Quadruple
    /\ cmd.target_info = << StopAtBpoint >>
    /\ acks_sent = 1

\* C4: when the reply to a request is a NACK, execute sets error_code to
\* the first payload byte and raises ServerCommandError; it leaves without
\* a second recv_message call, sends no ACK, and target_info stays unset.
C4_NackRaises ==
    [][(ReplyEnds /\ Head(pending).type = MSG_NACK
            /\ Head(pending).seqnum = next_seqnum)
        => (/\ cmd'.error_code = Head(pending).data[1]
            /\ raised' = "ServerCommandError"
            /\ pc' = "idle"
            /\ wire_out' = wire_out
            /\ acks_sent' = acks_sent
            /\ cmd'.target_info = << >>)]_vars

\* C4's case: a CONT was answered with NACK(ERROR_UNKNOWN_BREAKPOINT)
C4_Witness ==
    /\ pc = "idle" /\ raised = "ServerCommandError"
    /\ cmd.msg_type = MSG_CONT
    /\ cmd.error_code = ERROR_UNKNOWN_BREAKPOINT
    /\ events = << "send_request", "recv_nack" >>

\* C6: execute raises ConnectionError (not ServerCommandError) when the
\* first message after the request is neither ACK nor NACK, and, for RUN,
\* STEP, CONT and KILL, when the message after the ACK is no stop
\* notification; in the second case no ACK is sent and target_info stays
\* unset.
C6_ProtocolError ==
    /\ [][(ReplyEnds /\ ~IsAckOrNack(Head(pending).type))
            => (/\ raised' = "ConnectionError"
                /\ pc' = "idle"
                /\ cmd'.target_info = << >>)]_vars
    /\ [][(StopEnds /\ Head(pending).type # MSG_TARGET_STOPPED)
            => (/\ raised' = "ConnectionError"
                /\ pc' = "idle"
                /\ wire_out' = wire_out
                /\ acks_sent' = acks_sent
                /\ cmd'.target_info = << >>)]_vars

\* C6's case: after the ACK of a KILL came a message that is neither a
\* stop notification nor an ACK / NACK
C6_Witness ==
    /\ pc = "idle" /\ raised = "ConnectionError"
    /\ cmd.msg_type = MSG_KILL
    /\ events = << "send_request", "recv_ack", "recv_other" >>
    /\ cmd.target_info = << >>
    /\ acks_sent = 0


(***************************************************************************)
(* The CLI (cli.py). Cli.process_command parses a line, asks the command's *)
(* class whether the target state allows it and calls its execute(). A     *)
(* command's execute() runs server commands one after the other; between   *)
(* their blocking reads it is a value of the variable cli.                 *)
(***************************************************************************)
MaxCliExecs == 3

\* target_state & b for a single bit b
HasBit(x, b) == (x \div b) % 2 = 1

\* CliCommand._get_target_status_for_ui: the message and the TargetInfo
\* handed to the UI; err is the ValueError of ErrorCodes(error_code) for a
\* code that is no member of the enumeration
get_target_status_for_ui(t) ==
    IF HasBit(t.target_state, TS_STOPPED_BY_BPOINT)
    THEN [msg |-> Msg("Target has hit breakpoint", "",
                      << t.bpoint_num, t.bpoint_address - t.initial_pc,
                         t.bpoint_hit_count >>),
          ti |-> << t >>, err |-> FALSE]
    ELSE IF HasBit(t.target_state, TS_STOPPED_BY_EXCEPTION)
    THEN [msg |-> Msg("Target has been stopped by exception", "",
                      << t.exc_num >>),
          ti |-> << t >>, err |-> FALSE]
    ELSE IF t.target_state = TS_EXITED
    THEN [msg |-> Msg("Target exited with code", "", << t.exit_code >>),
          ti |-> << >>, err |-> FALSE]
    ELSE IF t.target_state = TS_KILLED
    THEN [msg |-> Msg("Target has been killed", "", << >>),
          ti |-> << >>, err |-> FALSE]
    ELSE IF t.target_state = TS_ERROR
    THEN [msg |-> Msg("Error occured while running target", "",
                      << t.error_code >>),
          ti |-> << >>, err |-> t.error_code \notin ErrorCodes]
    ELSE [msg |-> NoMsg, ti |-> << t >>, err |-> FALSE]

\* the classes whose is_correct_target_state_for_command refuses while the
\* target runs (CliRun, CliQuit), and those that refuse unless it runs
RefusedWhileRunning == { "run", "quit" }

RefusedUnlessRunning ==
    { "continue", "kill", "stepi", "step", "nexti", "next", "backtrace",
      "inspect" }

\* mutant: run and quit are refused as soon as there is a last TargetInfo
is_correct_target_state_for_command_OnlyFirstRun(command, ti) ==
    IF command \in RefusedWhileRunning
    THEN ti = << >>
    ELSE IF command \in RefusedUnlessRunning
    THEN ~(ti = << >> \/ ~HasBit(ti[1].target_state, TS_RUNNING))
    ELSE TRUE

\* mutant: continue and the like are let through as soon as there is a last
\* TargetInfo
is_correct_target_state_for_command_AnyInfo(command, ti) ==
    IF command \in RefusedWhileRunning
    THEN ~(ti # << >> /\ HasBit(ti[1].target_state, TS_RUNNING))
    ELSE IF command \in RefusedUnlessRunning
    THEN ti # << >>
    ELSE TRUE

\* is_correct_target_state_for_command of the class of the command, for
\* dbg.target_info = ti; the base class lets every command through
is_correct_target_state_for_command(command, ti) ==
    IF command \in RefusedWhileRunning
    THEN ~(ti # << >> /\ HasBit(ti[1].target_state, TS_RUNNING))
    ELSE IF command \in RefusedUnlessRunning
    THEN ~(ti = << >> \/ ~HasBit(ti[1].target_state, TS_RUNNING))
    ELSE TRUE

\* the message of a refusal (each class has its own wording after the name)
Refusal(command) == Msg("Incorrect state for command", command, << >>)


(***************************************************************************)
(* Command lines. A line is its command word and its argument; "" is the   *)
(* empty line and " " a line of blanks.                                    *)
(***************************************************************************)
Line(command, arg) == [command |-> command, arg |-> arg]

\* the names the parser knows besides help
CliCommands ==
    { "backtrace", "delete", "continue", "disassemble", "examine", "inspect",
      "hexdump", "kill", "nexti", "next", "quit", "run", "break", "stepi",
      "step" }

\* commands without arg_spec
NoArgCommands ==
    { "backtrace", "continue", "kill", "nexti", "next", "quit", "run", "stepi",
      "step", "help" }

\* int(s), int(s, 10) and int(s, 16) for the numbers typed in the lines;
\* -1 where int() raises ValueError
DecimalValue(s) ==
    CASE s = "1" -> 1
      [] s = "11" -> 11
      [] s = "99" -> 99
      [] OTHER -> -1

HexValue(s) ==
    CASE s = "0x24" -> 36
      [] OTHER -> -1

\* CliSetBreakpoint's regular expressions on the location
LocationKind(s) ==
    IF HexValue(s) # -1 THEN "hex"
    ELSE IF DecimalValue(s) # -1 THEN "decimal"
    ELSE IF s = "main" THEN "name"
    ELSE "other"

\* target.py: the bytes one instruction may take
MAX_INSTR_BYTES == 8

\* the block of memory that hexdump (address size), examine (format address)
\* and disassemble (address ninstr) ask for, as << address, nbytes >>, for
\* the arguments typed in the lines; << >> where the parser's int() raises.
\* struct.calcsize('>I') is 4.
MemArgs(args) ==
    CASE args.command = "hexdump" /\ args.arg = "0x4 4" -> << 4, 4 >>
      [] args.command = "examine" /\ args.arg = ">I 0x4" -> << 4, 4 >>
      [] args.command = "disassemble" /\ args.arg = "0x4 1" ->
            << 4, 1 * MAX_INSTR_BYTES >>
      [] OTHER -> << >>

\* the lines typed
CliLines ==
    { Line("", ""), Line(" ", ""), Line("bogus", ""),
      Line("run", ""), Line("quit", ""), Line("continue", ""),
      Line("kill", ""), Line("stepi", ""), Line("nexti", ""),
      Line("step", ""), Line("next", ""), Line("backtrace", ""),
      Line("inspect", "r"), Line("break", "0x24"), Line("break", "11"),
      Line("break", "main"), Line("delete", "1"),
      Line("hexdump", "0x4 4"), Line("examine", ">I 0x4"),
      Line("disassemble", "0x4 1") }

\* ThrowingArgumentParser.parse_args(shlex.split(cmd_line)) for a line that
\* is not empty: the namespace, or ArgumentParserError (ok FALSE). A line of
\* blanks splits into no words, and the namespace has command None.
parse_args(line) ==
    IF line.command = " "
    THEN [ok |-> TRUE, args |-> Line("None", "")]
    ELSE IF line.command \in NoArgCommands
    THEN [ok |-> line.arg = "", args |-> line]
    ELSE IF line.command = "inspect"
    THEN [ok |-> line.arg \in { "d", "r", "s", "c" }, args |-> line]
    ELSE IF line.command = "delete"
    THEN [ok |-> DecimalValue(line.arg) # -1, args |-> line]
    ELSE IF line.command = "break"
    THEN [ok |-> line.arg # "", args |-> line]
    ELSE IF line.command \in { "hexdump", "examine", "disassemble" }
    THEN [ok |-> MemArgs(line) # << >>, args |-> line]
    ELSE [ok |-> FALSE, args |-> line]

(***************************************************************************)
(* ProgramWithDebugInfo as the CLI uses it (stabslib.py 213-258): the      *)
(* compilation units in file order, and per unit the line ranges in the    *)
(* order of the dict, each << lineno, start, end >>.                       *)
(***************************************************************************)
\* one unit of three lines; the range of the last line is open (end 0)
SampleProgram ==
    [comp_units |-> << [name |-> "main.c", start_addr |-> 0, end_addr |-> 0] >>,
     addresses_by_lineno |->
        [u \in { "main.c" } |->
            << << 10, 0, 36 >>, << 11, 36, 44 >>, << 12, 44, 0 >> >>]]

\* the first element of sequence q that satisfies Test, as << e >>, or << >>
FirstWhere(q, Test(_)) ==
    LET at == { i \in 1 .. Len(q) : Test(q[i]) }
    IN  IF at = {} THEN << >>
        ELSE << q[CHOOSE i \in at : \A j \in at : i <= j] >>

\* the name of the first unit that contains addr, as << name >>, or << >>
get_comp_unit_for_addr(p, addr) ==
    LET Holds(u) == addr >= u.start_addr /\ (u.end_addr = 0 \/ addr < u.end_addr)
        found == FirstWhere(p.comp_units, Holds)
    IN  IF found = << >> THEN << >> ELSE << found[1].name >>

\* the first line of the unit whose range contains addr, as << lineno >>
get_lineno_for_addr(p, addr, comp_unit) ==
    IF comp_unit \notin DOMAIN p.addresses_by_lineno THEN << >>
    ELSE LET Holds(e) == e[2] <= addr /\ addr < e[3]
             found == FirstWhere(p.addresses_by_lineno[comp_unit], Holds)
         IN  IF found = << >> THEN << >> ELSE << found[1][1] >>

\* the range of a line as << start, end >>, or << >>; comp_unit is << >>
\* when the caller omits it, which is a ValueError (err) unless the program
\* has one unit
get_addr_range_for_lineno(p, lineno, comp_unit) ==
    LET units == DOMAIN p.addresses_by_lineno
        unit == IF comp_unit # << >> THEN comp_unit[1]
                ELSE CHOOSE u \in units : TRUE
        Holds(e) == e[1] = lineno
        found == IF unit \in units
                 THEN FirstWhere(p.addresses_by_lineno[unit], Holds)
                 ELSE << >>
    IN  IF comp_unit = << >> /\ Cardinality(units) # 1
        THEN [err |-> TRUE, range |-> << >>]
        ELSE [err |-> FALSE,
              range |-> IF found = << >> THEN << >>
                        ELSE << found[1][2], found[1][3] >>]

(***************************************************************************)
(* The next instruction of a TargetInfo (target.py 123-148).               *)
(***************************************************************************)
\* the test with the mask 0xff80, which also holds for JMP
next_instr_is_jsr_AnyJump(t) == t.instr \div 128 = 157

\* (word & 0xffc0) == 0x4e80
next_instr_is_jsr(t) == t.instr \div 64 = 314

\* word == 0x4e75
next_instr_is_rts(t) == t.instr = 20085

\* the size the disassembler gives for the instruction at the first word:
\* JSR (xxx).L 6, JSR d16(A6) 4, JSR (A0) 2, NOP 2, RTS 2; 0 for a word it
\* does not decode (next() on its empty iterator raises StopIteration)
InstrSize(word) ==
    CASE word = 20153 -> 6
      [] word = 20142 -> 4
      [] word = 20112 -> 2
      [] word = 20081 -> 2
      [] word = 20085 -> 2
      [] OTHER -> 0

get_bytes_used_by_jsr(t) == InstrSize(t.instr)


(***************************************************************************)
(* The commands' execute() methods, cut at the server commands they run.   *)
(* What a command does next is a record: kind "exec" with the request of   *)
(* the next server command and the command's locals, or kind "done" with   *)
(* the tuple process_command returns and how the command loop goes on      *)
(* ("prompt"; "quit" after QuitDebuggerException; "fatal" after any other  *)
(* exception, which process_command wraps into RuntimeError). ti is        *)
(* dbg.target_info at that point.                                          *)
(***************************************************************************)
Exec(req, c, ti) ==
    [kind |-> "exec", req |-> req, cli |-> c, ti |-> ti, result |-> NoResult,
     session |-> "prompt"]

Done(msg, ui_ti, ti) ==
    [kind |-> "done", req |-> << >>, cli |-> NoCli, ti |-> ti,
     result |-> [msg |-> msg, ti |-> ui_ti], session |-> "prompt"]

Fatal(ti) ==
    [kind |-> "done", req |-> << >>, cli |-> NoCli, ti |-> ti,
     result |-> NoResult, session |-> "fatal"]

Quit(ti) ==
    [kind |-> "done", req |-> << >>, cli |-> NoCli, ti |-> ti,
     result |-> NoResult, session |-> "quit"]

\* the message type and the data of the server commands (server.py 197-252)
SrvRun == << MSG_RUN, << >> >>

SrvQuit == << MSG_QUIT, << >> >>

SrvContinue == << MSG_CONT, << >> >>

SrvKill == << MSG_KILL, << >> >>

SrvSingleStep == << MSG_STEP, << >> >>

SrvSetBreakpoint(bpoint_offset, is_one_shot) ==
    << MSG_SET_BPOINT,
       U32Bytes(bpoint_offset) \o U16Bytes(IF is_one_shot THEN 1 ELSE 0) >>

SrvClearBreakpoint(bpoint_num) == << MSG_CLEAR_BPOINT, U32Bytes(bpoint_num) >>

\* address is given as its four bytes
SrvPeekMem(address, nbytes) == << MSG_PEEK_MEM, address \o U16Bytes(nbytes) >>

\* struct.pack('>I', n) raises struct.error unless 0 <= n < 2^32; the
\* numbers of the model stay below 2^31
Packable(n) == n >= 0

\* return_status that stores what it hands to the UI: None after an exit
return_status_StoresUiInfo(ti) ==
    LET st == get_target_status_for_ui(ti[1])
    IN  IF st.err THEN Fatal(ti) ELSE Done(st.msg, st.ti, st.ti)

\* "dbg.target_info = cmd.target_info" and
\* "return self._get_target_status_for_ui(...)" for ti = cmd.target_info
return_status(ti) ==
    LET st == get_target_status_for_ui(ti[1])
    IN  IF st.err THEN Fatal(ti) ELSE Done(st.msg, st.ti, ti)

\* the first lines of _execute_one_line and _execute_until_next_line: the
\* range of the line of the PC. "AttributeError": dbg.program is None;
\* "NoDebugInfoError": no unit or no line for the PC; "AssertionError": no
\* range for the line found
current_line(program, t) ==
    LET off == t.reg_pc - t.initial_pc
        unit == get_comp_unit_for_addr(program[1], off)
        lineno == get_lineno_for_addr(program[1], off, unit[1])
        r == get_addr_range_for_lineno(program[1], lineno[1], unit)
    IN  IF program = << >> THEN [raised |-> "AttributeError", range |-> << >>]
        ELSE IF unit = << >> THEN [raised |-> "NoDebugInfoError", range |-> << >>]
        ELSE IF lineno = << >> THEN [raised |-> "NoDebugInfoError", range |-> << >>]
        ELSE IF r.range = << >> THEN [raised |-> "AssertionError", range |-> << >>]
        ELSE [raised |-> "", range |-> r.range]

\* the condition of the while loops of step and next
InLine(c, t) ==
    c.lo <= t.reg_pc - t.initial_pc /\ t.reg_pc - t.initial_pc < c.hi

\* CliBacktrace.execute once the call stack is there: per frame the program
\* counter, 1 if a unit was found for it (else -1) and its line (else -1);
\* with a frame and no program loaded it is an AttributeError
RECURSIVE BacktraceLines(_, _, _)
BacktraceLines(frames, t, p) ==
    IF frames = << >> THEN << >>
    ELSE LET f == frames[1]
             off == IF f.program_counter >= t.initial_pc
                    THEN f.program_counter - t.initial_pc ELSE -1
             unit == get_comp_unit_for_addr(p, off)
             lineno == IF unit = << >> THEN << >>
                       ELSE get_lineno_for_addr(p, off, unit[1])
         IN  << f.program_counter,
                IF unit = << >> THEN -1 ELSE 1,
                IF lineno = << >> THEN -1 ELSE lineno[1] >>
                 \o BacktraceLines(Tail(frames), t, p)

\* TargetInfo.get_call_stack (target.py 256-276) from the loop condition
\* on, and what its caller does with the finished list: backtrace formats
\* it, step takes the frame pointers of the first two frames (IndexError on
\* an empty list) and enters its loop
RECURSIVE call_stack_loop(_, _, _)
RECURSIVE execute_one_line(_, _, _)
RECURSIVE step_loop(_, _, _)
call_stack_loop(c, ti, program) ==
    IF c.frame_ptr # EndOfFrames
    THEN Exec(SrvPeekMem(c.frame_ptr, 8), [c EXCEPT !.stage = "stack"], ti)
    ELSE IF c.command = "backtrace"
    THEN IF c.stack_frames # << >> /\ program = << >> THEN Fatal(ti)
         ELSE Done(Msg("Call stack", "",
                       IF c.stack_frames = << >> THEN << >>
                       ELSE BacktraceLines(c.stack_frames, ti[1], program[1])),
                   << >>, ti)
    ELSE IF c.stack_frames = << >> THEN Fatal(ti)
    ELSE step_loop([c EXCEPT !.prev_frame_ptr =
                        IF Len(c.stack_frames) > 1
                        THEN << c.stack_frames[2].frame_ptr >> ELSE << >>],
                   ti, program)

\* CliStepLine._execute_one_line up to its first server command
execute_one_line(c, ti, program) ==
    LET cl == current_line(program, ti[1])
    IN  IF cl.raised = "NoDebugInfoError"
        THEN Done(Msg("Can't step one line", "step", << >>), << >>, ti)
        ELSE IF cl.raised # "" THEN Fatal(ti)
        ELSE call_stack_loop(
                 [c EXCEPT !.lo = cl.range[1], !.hi = cl.range[2],
                           !.frame_ptr = ti[1].reg_a5,
                           !.program_counter = ti[1].reg_pc,
                           !.stack_frames = << >>],
                 ti, program)

\* step_loop without the caller's line
step_loop_NeverReapplies(c, ti, program) ==
    IF InLine(c, ti[1])
    THEN Exec(SrvSingleStep, [c EXCEPT !.stage = "step"], ti)
    ELSE return_status(ti)

\* step_loop that goes on in every frame but the one it started in
step_loop_AnyOtherFrame(c, ti, program) ==
    IF InLine(c, ti[1])
    THEN Exec(SrvSingleStep, [c EXCEPT !.stage = "step"], ti)
    ELSE IF ti[1].reg_a5 # c.stack_frames[1].frame_ptr
    THEN execute_one_line(c, ti, program)
    ELSE return_status(ti)

\* the while loop of _execute_one_line from its condition on: one STEP per
\* pass; after the loop the line of the caller, if the frame pointer is the
\* one of the previous frame
step_loop(c, ti, program) ==
    IF InLine(c, ti[1])
    THEN Exec(SrvSingleStep, [c EXCEPT !.stage = "step"], ti)
    ELSE IF << ti[1].reg_a5 >> = c.prev_frame_ptr
    THEN execute_one_line(c, ti, program)
    ELSE return_status(ti)

\* next_loop without the breakpoint behind a JSR: the JSR is stepped into
next_loop_StepsIntoJsr(c, ti) ==
    IF ~InLine(c, ti[1]) THEN return_status(ti)
    ELSE IF InstrSize(ti[1].instr) = 0 THEN Fatal(ti)
    ELSE IF next_instr_is_rts(ti[1])
    THEN Exec(SrvSingleStep, [c EXCEPT !.stage = "rts"], ti)
    ELSE Exec(SrvSingleStep, [c EXCEPT !.stage = "step"], ti)

\* the while loop of CliNextLine._execute_until_next_line, from its
\* condition to the next server command
next_loop(c, ti) ==
    LET t == ti[1]
        offset == t.reg_pc - t.initial_pc + InstrSize(t.instr)
    IN  IF ~InLine(c, t) THEN return_status(ti)
        ELSE IF InstrSize(t.instr) = 0 THEN Fatal(ti)
        ELSE IF next_instr_is_jsr(t)
        THEN IF Packable(offset)
             THEN Exec(SrvSetBreakpoint(offset, TRUE), [c EXCEPT !.stage = "bp"], ti)
             ELSE Fatal(ti)
        ELSE IF next_instr_is_rts(t)
        THEN Exec(SrvSingleStep, [c EXCEPT !.stage = "rts"], ti)
        ELSE Exec(SrvSingleStep, [c EXCEPT !.stage = "step"], ti)

\* CliNextLine._execute_until_next_line up to its first server command
execute_until_next_line(c, ti, program) ==
    LET cl == current_line(program, ti[1])
    IN  IF cl.raised = "NoDebugInfoError"
        THEN Done(Msg("Can't execute target until next line", "next", << >>),
                  << >>, ti)
        ELSE IF cl.raised # "" THEN Fatal(ti)
        ELSE next_loop([c EXCEPT !.lo = cl.range[1], !.hi = cl.range[2]], ti)


\* the locals of a command that starts
NewCli(command, stage) == [NoCli EXCEPT !.command = command, !.stage = stage]

\* CliSetBreakpoint.execute up to its server command
set_breakpoint(args, ti, program) ==
    LET kind == LocationKind(args.arg)
        r == get_addr_range_for_lineno(program[1], DecimalValue(args.arg), << >>)
        c == NewCli("break", "req")
    IN  IF kind = "hex"
        THEN Exec(SrvSetBreakpoint(HexValue(args.arg), FALSE), c, ti)
        ELSE IF program = << >>
        THEN Done(Msg("Program not loaded on host", "", << >>), << >>, ti)
        ELSE IF kind = "name" THEN Fatal(ti)          \* NotImplementedError
        ELSE IF kind = "other"
        THEN Done(Msg("Invalid format of breakpoint location", "", << >>),
                  << >>, ti)
        ELSE IF r.err
        THEN Done(Msg("Failed to find address for breakpoint location", "",
                      << >>), << >>, ti)
        ELSE IF r.range = << >>
        THEN Done(Msg("No address available for breakpoint location", "",
                      << >>), << >>, ti)
        ELSE Exec(SrvSetBreakpoint(r.range[1], FALSE), c, ti)

\* CliNextInstr.execute that single-steps in front of a JSR as well
next_instr_StepsIntoJsr(ti) == Exec(SrvSingleStep, NewCli("nexti", "go"), ti)

\* CliNextInstr.execute up to its first server command
next_instr(ti) ==
    LET t == ti[1]
        offset == t.reg_pc - t.initial_pc + get_bytes_used_by_jsr(t)
    IN  IF ~next_instr_is_jsr(t)
        THEN Exec(SrvSingleStep, NewCli("nexti", "go"), ti)
        ELSE IF get_bytes_used_by_jsr(t) = 0 THEN Fatal(ti)   \* StopIteration
        ELSE IF ~Packable(offset) THEN Fatal(ti)              \* struct.error
        ELSE Exec(SrvSetBreakpoint(offset, TRUE), NewCli("nexti", "bp"), ti)

\* cmd.execute(args) of the class of args.command, up to its first server
\* command, for a command that is_correct_target_state_for_command lets
\* through
cli_execute(args, ti, program) ==
    CASE args.command = "run" -> Exec(SrvRun, NewCli("run", "go"), ti)
      [] args.command = "continue" ->
            Exec(SrvContinue, NewCli("continue", "go"), ti)
      [] args.command = "kill" -> Exec(SrvKill, NewCli("kill", "go"), ti)
      [] args.command = "stepi" -> Exec(SrvSingleStep, NewCli("stepi", "go"), ti)
      [] args.command = "quit" -> Exec(SrvQuit, NewCli("quit", "req"), ti)
      [] args.command = "nexti" -> next_instr(ti)
      [] args.command = "step" -> execute_one_line(NewCli("step", ""), ti, program)
      [] args.command = "next" ->
            execute_until_next_line(NewCli("next", ""), ti, program)
      [] args.command = "backtrace" ->
            call_stack_loop([NewCli("backtrace", "")
                                EXCEPT !.frame_ptr = ti[1].reg_a5,
                                       !.program_counter = ti[1].reg_pc],
                            ti, program)
      [] args.command = "inspect" -> Done(Msg("View", args.arg, << >>), << >>, ti)
      [] args.command = "break" -> set_breakpoint(args, ti, program)
      [] args.command = "delete" ->
            Exec(SrvClearBreakpoint(DecimalValue(args.arg)),
                 NewCli("delete", "req"), ti)
      [] args.command \in { "hexdump", "examine", "disassemble" } ->
            Exec(SrvPeekMem(U32Bytes(MemArgs(args)[1]), MemArgs(args)[2]),
                 NewCli(args.command, "mem"), ti)
      [] OTHER -> Fatal(ti)

\* mutant: every command returns a message after ServerCommandError
on_server_command_error_AllCaught(c, x, ti) ==
    Done(Msg("Command failed", c.command, << x.error_code >>), << >>, ti)

\* mutant: a failed command forgets the last TargetInfo
on_server_command_error_ForgetsInfo(c, x, ti) ==
    IF c.command \in { "init", "quit" } \/ c.stage = "stack" THEN Fatal(<< >>)
    ELSE Done(Msg("Command failed", c.command, << x.error_code >>), << >>,
              << >>)

\* what the command with locals c does when its server command x has raised
\* ServerCommandError: the classes' except clauses return a message;
\* ServerConnection.__init__ and CliQuit.execute have no except clause, and
\* get_call_stack turns the error into RuntimeError
on_server_command_error(c, x, ti) ==
    IF c.command \in { "init", "quit" } \/ c.stage = "stack" THEN Fatal(ti)
    ELSE Done(Msg("Command failed", c.command, << x.error_code >>), << >>, ti)

\* append_stack_frame that gives every frame the program counter of the
\* first one
append_stack_frame_KeepsProgramCounter(c, x) ==
    [c EXCEPT !.stack_frames =
                  Append(@, [frame_ptr |-> c.frame_ptr,
                             program_counter |-> c.program_counter,
                             return_addr |-> U32At(x.data, 5)]),
              !.frame_ptr = SubSeq(x.data, 1, 4)]

\* the body of get_call_stack's loop behind SrvPeekMem(...).execute, whose
\* result is x.data (target.py 269-275)
append_stack_frame(c, x) ==
    [c EXCEPT !.stack_frames =
                  Append(@, [frame_ptr |-> c.frame_ptr,
                             program_counter |-> c.program_counter,
                             return_addr |-> U32At(x.data, 5)]),
              !.frame_ptr = SubSeq(x.data, 1, 4),
              !.program_counter = U32At(x.data, 5)]

\* what the command with locals c does when its server command has returned
\* as object x or has raised ex
cli_resume(c, x, ex, ti, program) ==
    IF ex \notin { "", "ServerCommandError" } THEN Fatal(ti)
    ELSE IF ex # "" THEN on_server_command_error(c, x, ti)
    \* ServerConnection.__init__: SrvInit().execute(self)
    ELSE IF c.command = "init" THEN Done(NoMsg, << >>, ti)
    ELSE IF c.stage = "stack"
    \* unpacking result[4:] is a struct.error unless it has four bytes
    THEN IF Len(x.data) # 8 THEN Fatal(ti)
         ELSE call_stack_loop(append_stack_frame(c, x), ti, program)
    ELSE IF c.command = "quit" THEN Quit(ti)
    \* examine: struct.unpack('>I', cmd.result) is a struct.error, which the
    \* class catches, unless the result has four bytes
    ELSE IF c.stage = "mem"
    THEN Done(Msg(IF c.command = "examine" /\ Len(x.data) # 4
                  THEN "Parsing format string failed" ELSE "Memory",
                  c.command, x.data), << >>, ti)
    ELSE IF c.stage = "req"
    THEN Done(Msg(IF c.command = "break" THEN "Breakpoint set"
                  ELSE "Breakpoint cleared", "", << >>), << >>, ti)
    ELSE IF c.stage = "go" THEN return_status(x.target_info)
    ELSE IF c.stage = "bp"
    THEN Exec(SrvContinue,
              [c EXCEPT !.stage = IF c.command = "nexti" THEN "go" ELSE "cont"],
              ti)
    ELSE IF c.stage = "rts"
    THEN execute_until_next_line(c, x.target_info, program)
    ELSE IF c.command = "step" THEN step_loop(c, x.target_info, program)
    ELSE next_loop(c, x.target_info)

\* process_command that runs a repeated command without the check of the
\* target state
process_command_RepeatUnchecked(line, stored, ti, program) ==
    LET parsed == parse_args(line)
        args == IF line.command # "" THEN parsed.args ELSE stored[1]
    IN  IF line.command # "" /\ ~parsed.ok
        THEN [stored |-> stored,
              plan |-> Done(Msg("Invalid command / argument", "", << >>),
                            << >>, ti)]
        ELSE IF line.command = "" /\ stored = << >>
        THEN [stored |-> stored,
              plan |-> Done(Msg("Can't repeat command", "", << >>), << >>, ti)]
        ELSE [stored |-> << args >>,
              plan |->
                IF args.command = "help"
                THEN Done(Msg("Help", "", << >>), << >>, ti)
                ELSE IF args.command \notin CliCommands THEN Fatal(ti)
                ELSE IF line.command # ""
                        /\ ~is_correct_target_state_for_command(args.command, ti)
                THEN Done(Refusal(args.command), << >>, ti)
                ELSE cli_execute(args, ti, program)]

\* process_command that drops the last TargetInfo when it refuses or rejects
\* a line
process_command_RefusalForgetsInfo(line, stored, ti, program) ==
    LET parsed == parse_args(line)
        args == IF line.command # "" THEN parsed.args ELSE stored[1]
    IN  IF line.command # "" /\ ~parsed.ok
        THEN [stored |-> stored,
              plan |-> Done(Msg("Invalid command / argument", "", << >>),
                            << >>, << >>)]
        ELSE IF line.command = "" /\ stored = << >>
        THEN [stored |-> stored,
              plan |-> Done(Msg("Can't repeat command", "", << >>), << >>, ti)]
        ELSE [stored |-> << args >>,
              plan |->
                IF args.command = "help"
                THEN Done(Msg("Help", "", << >>), << >>, ti)
                ELSE IF args.command \notin CliCommands THEN Fatal(ti)
                ELSE IF ~is_correct_target_state_for_command(args.command, ti)
                THEN Done(Refusal(args.command), << >>, << >>)
                ELSE cli_execute(args, ti, program)]

\* Cli.process_command (cli.py 614-638) up to the first server command:
\* the stored arguments afterwards, and what happens next
process_command(line, stored, ti, program) ==
    LET parsed == parse_args(line)
        args == IF line.command # "" THEN parsed.args ELSE stored[1]
    IN  IF line.command # "" /\ ~parsed.ok
        THEN [stored |-> stored,
              plan |-> Done(Msg("Invalid command / argument", "", << >>),
                            << >>, ti)]
        ELSE IF line.command = "" /\ stored = << >>
        THEN [stored |-> stored,
              plan |-> Done(Msg("Can't repeat command", "", << >>), << >>, ti)]
        ELSE [stored |-> << args >>,
              plan |->
                IF args.command = "help"
                THEN Done(Msg("Help", "", << >>), << >>, ti)
                \* self._commands_by_name[None] is a KeyError
                ELSE IF args.command \notin CliCommands THEN Fatal(ti)
                ELSE IF ~is_correct_target_state_for_command(args.command, ti)
                THEN Done(Refusal(args.command), << >>, ti)
                ELSE cli_execute(args, ti, program)]


(***************************************************************************)
(* CLI level: the command loop of cwdebug.main without the TUI. It reads   *)
(* a line when the command before has returned; a command that is inside   *)
(* a server command goes on when the agent's message is there.             *)
(***************************************************************************)
\* send_message for each of msgs (<< type, data >>), one after the other
RECURSIVE FramesOf(_, _)
FramesOf(seqnum, msgs) ==
    IF msgs = << >> THEN << >>
    ELSE SendFrame(seqnum, msgs[1][1], msgs[1][2])
             \o FramesOf(SeqAfterSend(seqnum, msgs[1][1]), Tail(msgs))

RECURSIVE SeqAfterSends(_, _)
SeqAfterSends(seqnum, msgs) ==
    IF msgs = << >> THEN seqnum
    ELSE SeqAfterSends(SeqAfterSend(seqnum, msgs[1][1]), Tail(msgs))

send_messages(seqnum, msgs) ==
    /\ wire_out' = wire_out \o FramesOf(seqnum, msgs)
    /\ next_seqnum' = SeqAfterSends(seqnum, msgs)
    /\ last_sent' =
         IF msgs = << >> THEN last_sent
         ELSE << [seqnum |-> SeqAfterSends(seqnum, SubSeq(msgs, 1, Len(msgs) - 1)),
                  type |-> msgs[Len(msgs)][1], data |-> msgs[Len(msgs)][2]] >>
    /\ acks_sent' = acks_sent
                      + Cardinality({ i \in DOMAIN msgs : IsAckOrNack(msgs[i][1]) })

\* a fresh server command object for request req, its request sent
cmd_fresh(req) ==
    /\ cmd' = [msg_type |-> req[1], data |-> req[2], error_code |-> -1,
               target_info |-> << >>]
    /\ raised' = ""
    /\ events' = << "send_request" >>
    /\ ret' = NoRet
    /\ stop_sent' = << >>

\* the socket when command has gone on and the loop is in state session.
\* _init_debugger assigns dbg.server_conn when ServerConnection(...) has
\* returned, that is when SrvInit().execute has (cwdebug.py 97); main's
\* finally closes what dbg.server_conn holds when the loop has ended
\* (cwdebug.py 51-53)
after_command(command, session_after, conn) ==
    LET assigned == IF command = "init" /\ session_after = "prompt" THEN "dbg"
                    ELSE conn
    IN  IF session_after \in { "quit", "fatal" } /\ assigned = "dbg"
        THEN "closed" ELSE assigned

\* the command goes on as p says, after execute has sent acks (its ACK
\* of a stop notification, or nothing); the specification lets the session
\* run limit server commands
cli_proceed(p, seqnum, acks, limit) ==
    /\ p.kind = "exec" => calls < limit
    /\ send_messages(seqnum, IF p.kind = "exec" THEN Append(acks, p.req) ELSE acks)
    /\ dbg_target_info' = p.ti
    /\ cli' = p.cli
    /\ result' = p.result
    /\ session' = p.session
    /\ server_conn' = after_command(cli.command, p.session, server_conn)
    /\ pc' = IF p.kind = "exec" THEN "reply" ELSE "idle"
    /\ calls' = IF p.kind = "exec" THEN calls + 1 ELSE calls

\* the constructor running SrvRun in place of SrvInit
SrvInit_Run == << MSG_RUN, << >> >>

SrvInit == << MSG_INIT, << >> >>

\* _init_debugger: the program is loaded or not (--prog), the connection is
\* not yet made
InitCli ==
    /\ next_seqnum = 0
    /\ wire_out = << >>
    /\ wire_in = << >>
    /\ rbuf = << >>
    /\ pc = "idle"
    /\ ret = NoRet
    /\ calls = 0
    /\ last_sent = << >>
    /\ pending = << >>
    /\ acks_sent = 0
    /\ acks_rcvd = 0
    /\ frames_written = 0
    /\ frames_read = 0
    /\ InitCmdVars
    /\ dbg_target_info = << >>
    /\ dbg_program \in { << >>, << SampleProgram >> }
    /\ stored_args = << >>
    /\ cli = NoCli
    /\ result = NoResult
    /\ session = "init"
    /\ server_conn = "none"
    /\ stabs = << >>
    /\ exe_file = << >>
    /\ content_by_type = NoContent
    /\ next_instr_bytes = << >>
    /\ instr_tests = NoInstr
    /\ status_str = NoStatus
    /\ source_file = << >>
    /\ source_view = NoView
    /\ peer_closed = FALSE
    /\ empty_reads = 0
    /\ stabs_data = << >>
    /\ stabs_read = NoStabsRead

\* ServerConnection.__init__ up to the blocking read of SrvInit().execute
Connect ==
    /\ session = "init"
    /\ pc = "idle"
    /\ cli = NoCli
    /\ send_messages(next_seqnum, << SrvInit >>)
    /\ cmd_fresh(SrvInit)
    /\ rbuf' = << >>
    /\ cli' = NewCli("init", "req")
    /\ pc' = "reply"
    /\ server_conn' = "local"
    /\ UNCHANGED << wire_in, calls, pending, acks_rcvd, frames_written,
                    frames_read, agent_seq, agent_owes, dbg_target_info,
                    dbg_program, stored_args, result, session, stabs, exeVars, instrVars, restVars >>

\* input('> ') returns line, and process_command runs up to the blocking
\* read of the first server command or to its end. The agent has read what
\* the host wrote before: nothing the host does depends on wire_out.
ProcessCommandUpTo(line, limit) ==
    /\ session = "prompt"
    /\ pc = "idle"
    /\ cli = NoCli
    /\ wire_out = << >>
    /\ LET r == process_command(line, stored_args, dbg_target_info, dbg_program)
       IN  /\ stored_args' = r.stored
           /\ cli_proceed(r.plan, next_seqnum, << >>, limit)
           /\ IF r.plan.kind = "exec"
              THEN cmd_fresh(r.plan.req) /\ rbuf' = << >>
              ELSE UNCHANGED << cmd, raised, events, ret, stop_sent, rbuf >>
    /\ UNCHANGED << wire_in, pending, acks_rcvd, frames_written, frames_read,
                    agent_seq, agent_owes, dbg_program, stabs, exeVars, instrVars, restVars >>

ProcessCommand(line) == ProcessCommandUpTo(line, MaxCliExecs)

\* the first recv_message call of the server command reads k bytes; when
\* that ends the call, execute waits for the stop notification, or it
\* returns or raises and the CLI command goes on
CommandReplyUpTo(limit) ==
    /\ pc = "reply"
    /\ cli # NoCli
    /\ \E k \in ReadLengths(wire_in, rbuf) :
        /\ recv_read(k)
        /\ IF ~RecvDone(k)
           THEN UNCHANGED << next_seqnum, wire_out, last_sent, acks_sent,
                             acks_rcvd, ret, cmd, raised, events, stop_sent, pc,
                             calls, dbg_target_info, cli, result, session,
                             server_conn >>
           ELSE LET r == RecvOutcome(k)
                    a == ExecAfterReply(cmd, r)
                    p == cli_resume(cli, a.cmd, a.raised, dbg_target_info,
                                    dbg_program)
                IN  /\ acks_rcvd' = AcksRcvdAfter(r)
                    /\ IF a.next = "stop"
                       THEN /\ pc' = "stop"
                            /\ next_seqnum' = r.seqnum
                            /\ UNCHANGED << wire_out, last_sent, acks_sent, calls,
                                            dbg_target_info, cli, result,
                                            session, server_conn >>
                       ELSE cli_proceed(p, r.seqnum, << >>, limit)
                    /\ IF a.next # "stop" /\ p.kind = "exec"
                       THEN cmd_fresh(p.req)
                       ELSE /\ cmd' = a.cmd
                            /\ raised' = a.raised
                            /\ ret' = RetOf(r)
                            /\ events' = Append(events, EventOf(r))
                            /\ UNCHANGED stop_sent
    /\ UNCHANGED << frames_written, agent_seq, agent_owes, dbg_program,
                    stored_args, stabs, exeVars, instrVars, restVars >>

CommandReply == CommandReplyUpTo(MaxCliExecs)

\* the second recv_message call of the server command reads k bytes; when
\* that ends the call, execute acknowledges a stop notification and returns,
\* or raises, and the CLI command goes on
CommandStopUpTo(limit) ==
    /\ pc = "stop"
    /\ cli # NoCli
    /\ \E k \in ReadLengths(wire_in, rbuf) :
        /\ recv_read(k)
        /\ IF ~RecvDone(k)
           THEN UNCHANGED << next_seqnum, wire_out, last_sent, acks_sent,
                             acks_rcvd, ret, cmd, raised, events, stop_sent, pc,
                             calls, dbg_target_info, cli, result, session,
                             server_conn >>
           ELSE LET r == RecvOutcome(k)
                    a == ExecAfterStop(cmd, r)
                    p == cli_resume(cli, a.cmd, a.raised, dbg_target_info,
                                    dbg_program)
                IN  /\ acks_rcvd' = AcksRcvdAfter(r)
                    /\ cli_proceed(p, r.seqnum,
                                   IF a.ack THEN << << MSG_ACK, << >> >> >>
                                   ELSE << >>,
                                   limit)
                    /\ IF p.kind = "exec"
                       THEN cmd_fresh(p.req)
                       ELSE /\ cmd' = a.cmd
                            /\ raised' = a.raised
                            /\ ret' = RetOf(r)
                            /\ events' = events \o
                                 (IF a.ack THEN << EventOf(r), "send_ack" >>
                                  ELSE << EventOf(r) >>)
                            /\ UNCHANGED stop_sent
    /\ UNCHANGED << frames_written, agent_seq, agent_owes, dbg_program,
                    stored_args, stabs, exeVars, instrVars, restVars >>

CommandStop == CommandStopUpTo(MaxCliExecs)

NextCli ==
    \/ Connect
    \/ \E line \in CliLines : ProcessCommand(line)
    \/ CommandReply
    \/ CommandStop
    \/ AgentReply
    \/ AgentStop
    \/ AgentStopBad
    \/ AgentReadAck

SpecCli == InitCli /\ [][NextCli]_vars

(***************************************************************************)
(* Line level: the command loop from a prompt at which the program is      *)
(* loaded and `run` has returned with the target stopped. The lines are    *)
(* the commands that walk over source lines and the call stack.            *)
(***************************************************************************)
\* server commands a session of this level runs
MaxLineExecs == 4

\* after a single step, in front of the RTS that ends line 10, in the frame
\* FrameB
StopAtRts ==
    [StopAtJsr EXCEPT !.reg_pc = 12632290, !.reg_a5 = FrameB, !.instr = 20085]

\* where `run` has stopped the target
LineStarts == { StopAtBpoint, StopAtJsr, StopAtRts, StopAtLastLine }

\* where a server command of these lines stops it
LineStops == LineStarts \cup { StopExited }

LineLines == { Line("next", ""), Line("step", ""), Line("backtrace", "") }

\* the prompt after Connect and `run`, whose stop notification was t
InitLine ==
    \E t \in LineStarts :
        /\ next_seqnum = 3
        /\ wire_out = << >>
        /\ wire_in = << >>
        /\ rbuf = << >>
        /\ pc = "idle"
        /\ ret = [ok |-> TRUE, type |-> MSG_TARGET_STOPPED,
                  data |-> EncodeTargetInfo(t)]
        /\ calls = 0
        /\ last_sent = << >>
        /\ pending = << >>
        /\ acks_sent = 1
        /\ acks_rcvd = 2
        /\ frames_written = 3
        /\ frames_read = 3
        /\ cmd = [msg_type |-> MSG_RUN, data |-> << >>, error_code |-> 0,
                  target_info |-> << t >>]
        /\ raised = ""
        /\ events = Quadruple
        /\ agent_seq = 3
        /\ agent_owes = 0
        /\ stop_sent = << t >>
        /\ dbg_target_info = << t >>
        /\ dbg_program = << SampleProgram >>
        /\ stored_args = << Line("run", "") >>
        /\ cli = NoCli
        /\ result = [msg |-> get_target_status_for_ui(t).msg, ti |-> << t >>]
        /\ session = "prompt"
        /\ server_conn = "dbg"
        /\ stabs = << >>
        /\ exe_file = << >>
        /\ content_by_type = NoContent
        /\ next_instr_bytes = << >>
        /\ instr_tests = NoInstr
        /\ status_str = NoStatus
        /\ source_file = << >>
        /\ source_view = NoView
        /\ peer_closed = FALSE
        /\ empty_reads = 0
        /\ stabs_data = << >>
        /\ stabs_read = NoStabsRead

LineCommand(line) == ProcessCommandUpTo(line, MaxLineExecs)

LineReply == CommandReplyUpTo(MaxLineExecs)

LineStop == CommandStopUpTo(MaxLineExecs)

AgentLineStop == AgentStopOf(LineStops)

NextLine ==
    \/ \E line \in LineLines : LineCommand(line)
    \/ LineReply
    \/ LineStop
    \/ AgentReply
    \/ AgentLineStop
    \/ AgentStopBad
    \/ AgentReadAck

SpecLine == InitLine /\ [][NextLine]_vars


(***************************************************************************)
(* Claims at CLI level.                                                    *)
(***************************************************************************)
\* a step in which the command loop reads a line and calls process_command
\* (a call that leaves everything as it is is no step)
LineRead ==
    session = "prompt" /\ pc = "idle" /\ cli = NoCli /\ cliVars' # cliVars

\* such a step in which the line, typed or repeated, parses to command c
LineFor(c) ==
    /\ LineRead
    /\ stored_args' # << >>
    /\ stored_args'[1].command = c
    /\ result'.msg.text \notin { "Invalid command / argument",
                                 "Can't repeat command" }

\* the target_state of the last TargetInfo has the RUNNING bit
Running(ti) == ti # << >> /\ HasBit(ti[1].target_state, TS_RUNNING)

\* the last TargetInfo is one of a target that exited or was killed
Ended(ti) == ti # << >> /\ ti[1].target_state \in { TS_EXITED, TS_KILLED }

\* process_command refuses command c: the result is the message, nothing is
\* sent, and the session is as before
Refused(c) ==
    /\ result' = [msg |-> Refusal(c), ti |-> << >>]
    /\ wire_out' = wire_out
    /\ next_seqnum' = next_seqnum
    /\ dbg_target_info' = dbg_target_info
    /\ session' = "prompt"
    /\ pc' = "idle"

\* the last TargetInfo changes only when a stop notification is received,
\* and becomes the TargetInfo of that notification
LastInfoIsLastStop ==
    /\ [][dbg_target_info' # dbg_target_info => (pc = "stop" /\ RecvEnds)]_vars
    /\ [][(/\ pc = "stop" /\ cli # NoCli /\ RecvEnds /\ HeadFrameWhole
           /\ Head(pending).type = MSG_TARGET_STOPPED)
            => dbg_target_info' = << DecodeTargetInfo(Head(pending).data) >>]_vars

\* C9: run and quit are executed (their request is sent) only when there is
\* no last TargetInfo or its target_state lacks the RUNNING bit; when it has
\* the bit they are refused with a message. After a stop notification with
\* EXITED or KILLED, which becomes the last TargetInfo, run is accepted.
C9_RunQuitGuard ==
    /\ [][\A c \in RefusedWhileRunning :
            LineFor(c) =>
                IF Running(dbg_target_info) THEN Refused(c)
                ELSE /\ SentType = (IF c = "run" THEN MSG_RUN ELSE MSG_QUIT)
                     /\ cli'.command = c]_vars
    /\ [][(SentType \in { MSG_RUN, MSG_QUIT }) => ~Running(dbg_target_info)]_vars
    /\ [][(LineFor("run") /\ Ended(dbg_target_info)) => SentType = MSG_RUN]_vars
    /\ LastInfoIsLastStop

\* C9's case: run is in its server command again after the target had
\* exited
C9_Witness ==
    /\ cli.command = "run" /\ pc = "reply" /\ cmd.msg_type = MSG_RUN
    /\ dbg_target_info # << >>
    /\ dbg_target_info[1].target_state = TS_EXITED

\* C10: continue, kill, stepi, step, nexti, next, backtrace and inspect are
\* executed only when a last TargetInfo exists and its target_state has the
\* RUNNING bit; otherwise they are refused with a message. With the last
\* TargetInfo one of EXITED or KILLED they are refused at the prompt, and the
\* last TargetInfo is replaced only inside run or inside one of these
\* commands, which was let through with the RUNNING bit set: from the prompt
\* it takes a run to leave EXITED or KILLED.
C10_NeedsRunningTarget ==
    /\ [][\A c \in RefusedUnlessRunning :
            LineFor(c) =>
                IF Running(dbg_target_info) THEN result'.msg # Refusal(c)
                ELSE Refused(c)]_vars
    /\ [][(LineRead /\ (\/ SentType \in { MSG_CONT, MSG_KILL, MSG_STEP }
                         \/ cli'.command \in RefusedUnlessRunning))
            => Running(dbg_target_info)]_vars
    /\ [][(LineRead /\ Ended(dbg_target_info))
            => (/\ SentType \in { -1, MSG_RUN, MSG_QUIT, MSG_SET_BPOINT,
                                  MSG_CLEAR_BPOINT, MSG_PEEK_MEM }
                /\ cli'.command \notin RefusedUnlessRunning
                /\ dbg_target_info' = dbg_target_info)]_vars
    /\ [][(dbg_target_info' # dbg_target_info)
            => (/\ cli.command \in { "run" } \cup RefusedUnlessRunning
                /\ pc = "stop" /\ RecvEnds)]_vars

\* C10's case: continue was refused with the target killed
C10_Witness ==
    /\ session = "prompt" /\ pc = "idle"
    /\ result = [msg |-> Refusal("continue"), ti |-> << >>]
    /\ dbg_target_info # << >>
    /\ dbg_target_info[1].target_state = TS_KILLED

\* a server command of a CLI command gets the agent's NACK: the first
\* recv_message call of execute ends on a whole NACK frame with the sequence
\* number expected
NackReceived ==
    /\ ReplyEnds
    /\ Head(pending).type = MSG_NACK
    /\ Head(pending).seqnum = next_seqnum
    /\ cli.command # "init"

\* the command loop goes on with a message of failure for command c
FailureMessage(c) ==
    /\ session' = "prompt"
    /\ pc' = "idle"
    /\ cli' = NoCli
    /\ result'.msg.text = "Command failed"
    /\ result'.msg.about = c
    /\ result'.ti = << >>

\* C11 as stated: a NACK to any request a CLI command issues gives a message
\* as the result of process_command, and the command loop goes on.
C11_NackNeverAborts == [][NackReceived => FailureMessage(cli.command)]_vars

\* C11 as the code has it: a NACK gives a message and the command loop goes
\* on, except for a NACK to QUIT and a NACK to a PEEK_MEM of get_call_stack
\* (backtrace, step): these end the command loop with an internal error.
C11_NackAbortsQuitAndCallStack ==
    [][NackReceived =>
        IF cli.command = "quit" \/ (cmd.msg_type = MSG_PEEK_MEM /\ cli.stage = "stack")
        THEN session' = "fatal" /\ result' = NoResult
        ELSE FailureMessage(cli.command)]_vars

\* C11's case: the NACK to a PEEK_MEM of backtrace has ended the command loop
C11_Witness ==
    /\ session = "fatal"
    /\ raised = "ServerCommandError"
    /\ cmd.msg_type = MSG_PEEK_MEM
    /\ stored_args = << Line("backtrace", "") >>

\* the commands that run the target in several exchanges
SteppingCommands == { "next", "step", "nexti" }

\* signs that a server command of the CLI command in progress has returned
\* before the one in progress: get_call_stack has a frame, or the request is
\* the CONT that follows a SET_BPOINT
ExchangeSucceededBefore ==
    cli.stack_frames # << >> \/ cmd.msg_type = MSG_CONT

\* a CLI command receives a whole stop notification
StopReceived == StopEnds /\ Head(pending).type = MSG_TARGET_STOPPED

\* C12 as stated: when a NACK occurs during next, step or nexti after some
\* of their exchanges succeeded, the command returns a failure message and
\* the last TargetInfo stays the one of the last stop notification.
C12_NackReturnsFailure ==
    [][(NackReceived /\ cli.command \in SteppingCommands
            /\ ExchangeSucceededBefore)
        => (FailureMessage(cli.command)
            /\ dbg_target_info' = dbg_target_info)]_vars

\* C12 as the code has it: a NACK during next, step or nexti leaves the last
\* TargetInfo as it is, and that is the TargetInfo of the last stop
\* notification received (each one received by these commands becomes the
\* last TargetInfo, and nothing else changes it). The command returns a
\* failure message, except for a NACK to a PEEK_MEM of step's
\* get_call_stack, which ends the command loop.
C12_NackKeepsLastInfo ==
    /\ [][(NackReceived /\ cli.command \in SteppingCommands)
            => (/\ dbg_target_info' = dbg_target_info
                /\ IF cmd.msg_type = MSG_PEEK_MEM
                   THEN session' = "fatal" /\ result' = NoResult
                   ELSE FailureMessage(cli.command))]_vars
    /\ [][(StopReceived /\ cli.command \in SteppingCommands)
            => dbg_target_info' = << DecodeTargetInfo(Head(pending).data) >>]_vars
    /\ [][(cli.command \in SteppingCommands
            /\ dbg_target_info' # dbg_target_info) => StopReceived]_vars

\* C12's case: next has set its breakpoint behind a JSR, the CONT got a
\* NACK, and the last TargetInfo is still the one in front of the JSR
C12_Witness ==
    /\ session = "prompt"
    /\ result.msg = Msg("Command failed", "next", << ERROR_UNKNOWN_BREAKPOINT >>)
    /\ cmd.msg_type = MSG_CONT
    /\ raised = "ServerCommandError"
    /\ dbg_target_info = << StopAtJsr >>

\* there is no line for the PC of TargetInfo t: no program is loaded, or the
\* PC offset has no compilation unit, or no line in its unit
NoLineFor(program, t) ==
    \/ program = << >>
    \/ get_comp_unit_for_addr(program[1], t.reg_pc - t.initial_pc) = << >>
    \/ get_lineno_for_addr(
           program[1], t.reg_pc - t.initial_pc,
           get_comp_unit_for_addr(program[1], t.reg_pc - t.initial_pc)[1]) = << >>

\* C13: next and step on a running target, when no program is loaded or the
\* PC offset has no compilation unit or no line, return a message, send
\* nothing, and the command loop goes on.
C13_NoDebugInfoIsMessage ==
    [][\A c \in { "next", "step" } :
        (LineFor(c) /\ Running(dbg_target_info)
            /\ NoLineFor(dbg_program, dbg_target_info[1]))
        => (/\ session' = "prompt"
            /\ pc' = "idle"
            /\ result'.msg.text \in { "Can't step one line",
                                      "Can't execute target until next line" }
            /\ SentType = -1)]_vars

(***************************************************************************)
(* Claims at line level.                                                   *)
(***************************************************************************)
\* the step hands a request to the socket: Sent is that request
HostSends == Len(wire_out') > Len(wire_out) /\ last_sent' # << >>

Sent == last_sent'[1]

\* the frames execute() writes in a step that ends with the request Sent:
\* after a stop notification its ACK comes first
SentFrames ==
    IF pc = "stop"
    THEN FramesOf(Head(pending).seqnum, << << MSG_ACK, << >> >>,
                                           << Sent.type, Sent.data >> >>)
    ELSE FramesOf(Sent.seqnum, << << Sent.type, Sent.data >> >>)

\* the offset behind the instruction at the PC of t
OffsetBehind(t) == t.reg_pc - t.initial_pc + InstrSize(t.instr)

\* a pass of next's loop begins: the command starts, or the server command
\* of the pass before has returned with the target's new state
NextPass ==
    \/ LineFor("next") /\ Running(dbg_target_info)
    \/ StopReceived /\ cli.command = "next" /\ Head(pending).seqnum = next_seqnum

\* C14: in `next`, while the PC is inside the line's range, CONT is sent
\* only in front of a JSR and right after the ACK of a one-shot SET_BPOINT
\* at the offset behind that JSR; in front of an RTS one STEP is sent and
\* the command is applied again to the line of the new PC; in front of any
\* other instruction one STEP is sent per pass
C14_NextLineRequests ==
    /\ [][(HostSends /\ Sent.type = MSG_CONT /\ cli'.command = "next")
            => (/\ ReplyEnds
                /\ Head(pending).type = MSG_ACK
                /\ cmd.msg_type = MSG_SET_BPOINT
                /\ cmd.data = U32Bytes(OffsetBehind(dbg_target_info[1]))
                                  \o U16Bytes(1)
                /\ next_instr_is_jsr(dbg_target_info[1])
                /\ InLine(cli, dbg_target_info[1])
                /\ wire_out' = wire_out \o SentFrames)]_vars
    /\ [][(NextPass /\ cli'.command = "next")
            => LET t == dbg_target_info'[1]
               IN  /\ InLine(cli', t)
                   /\ HostSends
                   /\ wire_out' = wire_out \o SentFrames
                   /\ IF next_instr_is_jsr(t)
                      THEN /\ Sent.type = MSG_SET_BPOINT
                           /\ Sent.data = U32Bytes(OffsetBehind(t)) \o U16Bytes(1)
                           /\ cli'.stage = "bp"
                      ELSE /\ Sent.type = MSG_STEP
                           /\ cli'.stage = IF next_instr_is_rts(t) THEN "rts"
                                           ELSE "step"]_vars
    /\ [][(NextPass /\ cli.command = "next")
            => LET line == current_line(dbg_program, dbg_target_info'[1])
               IN  IF cli.stage = "rts"
                   THEN IF line.raised # ""
                        THEN /\ cli' = NoCli
                             /\ result'.msg.text
                                  = "Can't execute target until next line"
                        ELSE cli'.command = "next"
                                => << cli'.lo, cli'.hi >> = line.range
                   ELSE cli'.command = "next"
                           => << cli'.lo, cli'.hi >> = << cli.lo, cli.hi >>]_vars

\* `next` has set its breakpoint behind the JSR and has sent CONT
C14_Witness ==
    /\ cli.command = "next"
    /\ cli.stage = "cont"
    /\ cmd.msg_type = MSG_CONT
    /\ dbg_target_info = << StopAtJsr >>
    /\ << cli.lo, cli.hi >> = << 36, 44 >>

\* the lines of the unit that holds the PC of t, in file order
LinesAt(program, t) ==
    program.addresses_by_lineno[
        get_comp_unit_for_addr(program, t.reg_pc - t.initial_pc)[1]]

\* the PC of the last TargetInfo is at or behind the start of the last line
\* of its unit, whose end is stored as 0
OnLastLine ==
    /\ dbg_target_info # << >>
    /\ dbg_program # << >>
    /\ LET t == dbg_target_info[1]
           last == LinesAt(dbg_program[1], t)[Len(LinesAt(dbg_program[1], t))]
       IN  /\ get_comp_unit_for_addr(dbg_program[1], t.reg_pc - t.initial_pc)
                 # << >>
           /\ last[3] = 0
           /\ t.reg_pc - t.initial_pc >= last[2]

\* C15: the end 0 of a unit's last line means "up to the end of the unit":
\* get_lineno_for_addr gives that line for the addresses from its start on,
\* and next / step started on it execute instructions
C15_LastLineIsOpen ==
    /\ [](OnLastLine
            => LET t == dbg_target_info[1]
                   lines == LinesAt(dbg_program[1], t)
                   off == t.reg_pc - t.initial_pc
               IN  get_lineno_for_addr(
                       dbg_program[1], off,
                       get_comp_unit_for_addr(dbg_program[1], off)[1])
                     = << lines[Len(lines)][1] >>)
    /\ [][((LineFor("next") \/ LineFor("step"))
             /\ Running(dbg_target_info) /\ OnLastLine)
            => (HostSends /\ cli'.command \in { "next", "step" })]_vars

\* C16: next and step send STEP, CONT and SET_BPOINT only while the last
\* TargetInfo received has the RUNNING bit: after a stop notification with
\* EXITED, KILLED or ERROR they send no further request
C16_NoRequestAfterEnd ==
    [][(/\ HostSends
        /\ cli'.command \in { "next", "step" }
        /\ Sent.type \in { MSG_STEP, MSG_CONT, MSG_SET_BPOINT })
         => Running(dbg_target_info')]_vars

\* a STEP's stop notification arrives in step's loop
StepPass ==
    /\ StopReceived
    /\ Head(pending).seqnum = next_seqnum
    /\ cli.command = "step"
    /\ cli.stage = "step"

\* the step hands only the ACK of the stop notification to the socket
OnlyAckSent ==
    wire_out' = wire_out \o SendFrame(Head(pending).seqnum, MSG_ACK, << >>)

\* step starts again at TargetInfo t: the line of its PC, or the message
\* that there is none, and the call stack from its A5 on
StepReapplied(t) ==
    LET line == current_line(dbg_program, t)
    IN  IF line.raised # ""
        THEN /\ cli' = NoCli
             /\ result'.msg.text = "Can't step one line"
             /\ OnlyAckSent
        ELSE /\ HostSends
             /\ Sent.type = MSG_PEEK_MEM
             /\ Sent.data = t.reg_a5 \o U16Bytes(8)
             /\ cli'.command = "step"
             /\ cli'.stage = "stack"
             /\ << cli'.lo, cli'.hi >> = line.range
             /\ cli'.stack_frames = << >>

\* step returns the status of TargetInfo t
StepReturned(t) ==
    /\ cli' = NoCli
    /\ session' = "prompt"
    /\ result' = [msg |-> get_target_status_for_ui(t).msg,
                  ti |-> get_target_status_for_ui(t).ti]
    /\ OnlyAckSent

\* C17: step sends STEP until the PC offset has left the range [lo, hi) of
\* the line it started on; then it starts again if and only if A5 of the
\* new TargetInfo is the frame pointer of the second frame of the call
\* stack it took before stepping, and never when that stack had one frame
C17_StepLine ==
    /\ [](cli.command = "step" /\ cli.stage = "step"
            => cli.prev_frame_ptr
                 = IF Len(cli.stack_frames) > 1
                   THEN << cli.stack_frames[2].frame_ptr >> ELSE << >>)
    /\ [][StepPass
            => LET t == dbg_target_info'[1]
               IN  /\ t = stop_sent[1]
                   /\ IF InLine(cli, t)
                      THEN /\ HostSends
                           /\ Sent.type = MSG_STEP
                           /\ wire_out' = wire_out \o SentFrames
                           /\ cli' = cli
                      ELSE IF Len(cli.stack_frames) > 1
                              /\ t.reg_a5 = cli.stack_frames[2].frame_ptr
                      THEN StepReapplied(t)
                      ELSE StepReturned(t)]_vars
    /\ [][(HostSends /\ Sent.type = MSG_STEP /\ cli'.command = "step")
            => InLine(cli', dbg_target_info'[1])]_vars

\* step has left line 11 into the caller's frame and has started again on
\* the caller's line 10
C17_Witness ==
    /\ cli.command = "step"
    /\ cli.stage = "stack"
    /\ cli.stack_frames = << >>
    /\ calls = 4
    /\ dbg_target_info = << StopAtRts >>
    /\ << cli.lo, cli.hi >> = << 0, 36 >>
    /\ cmd.msg_type = MSG_PEEK_MEM
    /\ cmd.data = FrameB \o U16Bytes(8)

\* get_call_stack is called: backtrace or step starts at the prompt
WalkStarts ==
    /\ LineFor("backtrace") \/ LineFor("step")
    /\ Running(dbg_target_info)
    /\ current_line(dbg_program, dbg_target_info[1]).raised = ""
         \/ LineFor("backtrace")

\* the answer to a PEEK_MEM of get_call_stack arrives: eight bytes
PeekAnswered ==
    /\ ReplyEnds
    /\ Head(pending).type = MSG_ACK
    /\ Head(pending).seqnum = next_seqnum
    /\ cli.stage = "stack"
    /\ Len(Head(pending).data) = 8

\* the step sends PEEK_MEM(frame_ptr, 8), and nothing else
PeekSent(frame_ptr) ==
    /\ HostSends
    /\ Sent.type = MSG_PEEK_MEM
    /\ Sent.data = frame_ptr \o U16Bytes(8)
    /\ wire_out' = wire_out \o SentFrames
    /\ cli'.stage = "stack"

\* get_call_stack has returned: no PEEK_MEM is sent
WalkEnds == cli'.stage # "stack" /\ (HostSends => Sent.type # MSG_PEEK_MEM)

\* C18: get_call_stack sends one PEEK_MEM(frame_ptr, 8) per frame of the
\* chain from A5 to 0xffffffff, and returns the frames in order: the first
\* is (A5, reg_pc), the next of a frame is (first u32, second u32) of the
\* eight bytes read at its frame pointer
C18_CallStack ==
    /\ [][WalkStarts
            => LET t == dbg_target_info[1]
               IN  IF t.reg_a5 = EndOfFrames THEN WalkEnds
                   ELSE /\ PeekSent(t.reg_a5)
                        /\ cli'.stack_frames = << >>
                        /\ cli'.frame_ptr = t.reg_a5
                        /\ cli'.program_counter = t.reg_pc]_vars
    /\ [][PeekAnswered
            => LET d == Head(pending).data
                   frames == Append(cli.stack_frames,
                                    [frame_ptr |-> cli.frame_ptr,
                                     program_counter |-> cli.program_counter,
                                     return_addr |-> U32At(d, 5)])
               IN  IF SubSeq(d, 1, 4) = EndOfFrames
                   THEN /\ WalkEnds
                        /\ cli' # NoCli => cli'.stack_frames = frames
                        /\ cli' = NoCli
                             => result'.msg
                                  = Msg("Call stack", "",
                                        BacktraceLines(frames, dbg_target_info[1],
                                                       dbg_program[1]))
                   ELSE /\ PeekSent(SubSeq(d, 1, 4))
                        /\ cli'.stack_frames = frames
                        /\ cli'.frame_ptr = SubSeq(d, 1, 4)
                        /\ cli'.program_counter = U32At(d, 5)]_vars
    /\ [](cli.stage = "stack"
            => /\ cmd.msg_type = MSG_PEEK_MEM
               /\ cmd.data = cli.frame_ptr \o U16Bytes(8)
               /\ cli.frame_ptr # EndOfFrames
               /\ calls >= Len(cli.stack_frames) + 1
               /\ \A i \in 1 .. Len(cli.stack_frames) :
                    /\ cli.stack_frames[i].frame_ptr # EndOfFrames
                    /\ cli.stack_frames[i].program_counter
                         = IF i = 1 THEN dbg_target_info[1].reg_pc
                           ELSE cli.stack_frames[i - 1].return_addr
                    /\ i = 1 => cli.stack_frames[i].frame_ptr
                                  = dbg_target_info[1].reg_a5)

\* backtrace in front of the JSR has returned the two frames of the chain
\* FrameA, FrameB, 0xffffffff
C18_Witness ==
    /\ stored_args = << Line("backtrace", "") >>
    /\ dbg_target_info = << StopAtJsr >>
    /\ cmd.msg_type = MSG_PEEK_MEM
    /\ cmd.data = EndOfFrames \o U32Bytes(ReturnAddr)
    /\ calls = 2
    /\ result.msg = Msg("Call stack", "",
                        << 12632296, 1, 11, ReturnAddr, 1, 10 >>)

(***************************************************************************)
(* Further claims at CLI level.                                            *)
(***************************************************************************)
\* the command returns a message, sends nothing, and the loop goes on
Reported ==
    /\ session' = "prompt"
    /\ pc' = "idle"
    /\ SentType = -1
    /\ result'.msg # NoMsg

\* the command sends SET_BPOINT for offset off, not one-shot, and no more
BreakpointSentAt(off) ==
    /\ session' = "prompt"
    /\ HostSends
    /\ Sent.type = MSG_SET_BPOINT
    /\ Sent.data = U32Bytes(off) \o U16Bytes(0)
    /\ wire_out' = wire_out \o SentFrames

\* C19: break sends one SET_BPOINT that is not one-shot, for the number of
\* a 0x location, the start of the range of a decimal line, or the start of
\* a named function; where the location cannot be resolved it returns a
\* message, sends nothing, and the session goes on
C19_BreakSendsOrReports ==
    [][LineFor("break")
         => LET loc == stored_args'[1].arg
                r == get_addr_range_for_lineno(dbg_program[1],
                                               DecimalValue(loc), << >>)
            IN  CASE LocationKind(loc) = "hex" -> BreakpointSentAt(HexValue(loc))
                  [] LocationKind(loc) = "decimal" ->
                        IF dbg_program # << >> /\ ~r.err /\ r.range # << >>
                        THEN BreakpointSentAt(r.range[1])
                        ELSE Reported
                  [] LocationKind(loc) = "name" ->
                        \/ Reported
                        \/ /\ dbg_program # << >>
                           /\ \E off \in 0 .. 64 : BreakpointSentAt(off)
                  [] OTHER -> Reported]_vars

\* cwdebug.py: the exit codes the module names
RETURN_OK == 0

RETURN_ERROR == 1

\* the exit status of the host process, << >> while it runs. main returns
\* None when its loop has ended, by QuitDebuggerException or by the
\* exception it logs, and the module calls nothing after main(): the
\* interpreter ends with status 0
exit_status == IF session \in { "quit", "fatal" } THEN << 0 >> ELSE << >>

\* C20: the host process ends with exit code 0 after a clean quit and with
\* exit code 1 after a fatal internal error
C20_ExitCodes ==
    /\ session = "quit" => exit_status = << RETURN_OK >>
    /\ session = "fatal" => exit_status = << RETURN_ERROR >>

\* C21: once the socket has been opened it is closed on every path by which
\* the host stops: after quit, after a fatal error during a command, and
\* after a failure of the initial INIT exchange
C21_SocketClosedAtEnd ==
    session \in { "quit", "fatal" } => server_conn \in { "none", "closed" }

(***************************************************************************)
(* stabslib.py: ProgramTreeBuilder. A stab is a record of its type, string,*)
(* desc and value. The builder's state is a record of its attributes:      *)
(* stabs (self._stabs, next stab to pop first), nodes_stack,               *)
(* func_nodes_stack, table (self._addresses_by_lineno: per unit the lines  *)
(* in the order of the dict, each << lineno, start, end >>) and err, the   *)
(* exception that ended the build ("" for none).                           *)
(***************************************************************************)
\* StabTypes
N_UNDF == 0

N_GSYM == 32

N_FUN == 36

N_STSYM == 38

N_LCSYM == 40

N_RSYM == 64

N_SLINE == 68

N_SO == 100

N_LSYM == 128

N_PSYM == 160

N_LBRAC == 192

N_RBRAC == 224

\* what stands in self._stabs for the tuple (stab, stab.string) that the
\* N_SO branch appends: an element without the attributes of a stab
TUPLE == -1

Stab(type, string, desc, value) ==
    [type |-> type, string |-> string, desc |-> desc, value |-> value]

\* ProgramNode(type, name, start_addr=..., lineno=...)
ProgramNode(type, name, start_addr, lineno) ==
    [type |-> type, name |-> name, start_addr |-> start_addr, end_addr |-> 0,
     lineno |-> lineno, children |-> << >>]

\* file names of the model: a directory ends with "/"
IsDirectory(string) == string \in { "src/" }

\* lineno in self._addresses_by_lineno[unit]
Recorded(table, unit, lineno) ==
    \E i \in 1 .. Len(table[unit]) : table[unit][i][1] = lineno

\* self._addresses_by_lineno[unit][lineno] = (start, end): the place of a
\* key in the dict stays, a new key comes last
SetRange(table, unit, lineno, start, end) ==
    [table EXCEPT ![unit] =
        IF Recorded(table, unit, lineno)
        THEN [i \in 1 .. Len(@) |->
                IF @[i][1] = lineno THEN << lineno, start, end >> ELSE @[i]]
        ELSE Append(@, << lineno, start, end >>)]

\* the start of self._addresses_by_lineno[unit][lineno]
StartOf(table, unit, lineno) ==
    LET i == CHOOSE j \in 1 .. Len(table[unit]) : table[unit][j][1] = lineno
    IN  table[unit][i][2]

\* self._addresses_by_lineno[name] = {}
NewUnit(table, name) ==
    [u \in DOMAIN table \cup { name } |-> IF u = name THEN << >> ELSE table[u]]

\* the N_SLINE branch with the start of a line replaced by every later
\* record of the line
sline_LastRecordWins(b, stab, comp_unit, prev_lineno) ==
    LET pushed == [b EXCEPT !.nodes_stack =
                       Append(@, ProgramNode(N_SLINE, "", stab.value, stab.desc))]
        closes == prev_lineno # << >> /\ prev_lineno[1] < stab.desc
        closed == IF closes
                  THEN SetRange(b.table, comp_unit[1], prev_lineno[1],
                                StartOf(b.table, comp_unit[1], prev_lineno[1]),
                                stab.value)
                  ELSE b.table
    IN  IF comp_unit = << >>
        THEN [b |-> [pushed EXCEPT !.err = "AssertionError"], prev |-> prev_lineno]
        ELSE IF closes /\ ~Recorded(b.table, comp_unit[1], prev_lineno[1])
        THEN [b |-> [pushed EXCEPT !.err = "KeyError"], prev |-> prev_lineno]
        ELSE [b |-> [pushed EXCEPT !.table =
                        SetRange(closed, comp_unit[1], stab.desc, stab.value, 0)],
              prev |-> << stab.desc >>]

\* the branch for N_SLINE (stabslib.py 409-425) for stab, in unit
\* comp_unit (<< >> for None) after line prev_lineno (<< >> for None): the
\* builder and prev_lineno afterwards
sline(b, stab, comp_unit, prev_lineno) ==
    LET pushed == [b EXCEPT !.nodes_stack =
                       Append(@, ProgramNode(N_SLINE, "", stab.value, stab.desc))]
        closes == prev_lineno # << >> /\ prev_lineno[1] < stab.desc
        closed == IF closes
                  THEN SetRange(b.table, comp_unit[1], prev_lineno[1],
                                StartOf(b.table, comp_unit[1], prev_lineno[1]),
                                stab.value)
                  ELSE b.table
    IN  IF comp_unit = << >>
        THEN [b |-> [pushed EXCEPT !.err = "AssertionError"], prev |-> prev_lineno]
        ELSE IF closes /\ ~Recorded(b.table, comp_unit[1], prev_lineno[1])
        THEN [b |-> [pushed EXCEPT !.err = "KeyError"], prev |-> prev_lineno]
        ELSE IF Recorded(closed, comp_unit[1], stab.desc)
        THEN [b |-> [pushed EXCEPT !.table = closed], prev |-> prev_lineno]
        ELSE [b |-> [pushed EXCEPT !.table =
                        SetRange(closed, comp_unit[1], stab.desc, stab.value, 0)],
              prev |-> << stab.desc >>]

\* _build_subtree from the condition of its while loop on, with its locals
\* node (<< >> for None), current_comp_unit, current_func_lineno,
\* prev_lineno (each << >> for None) and srcdir: the builder afterwards and
\* the node returned
RECURSIVE build_subtree(_, _, _, _, _, _)
build_subtree(b, node, comp_unit, func_lineno, prev_lineno, srcdir) ==
    LET stab == Head(b.stabs)
        popped == [b EXCEPT !.stabs = Tail(@)]
        Raise(bb, e) == [b |-> [bb EXCEPT !.err = e], node |-> node]
        Loop(bb, n) ==
            build_subtree(bb, n, comp_unit, func_lineno, prev_lineno, srcdir)
        \* node.children.extend(stack)
        Extended(n, stack) == [n EXCEPT !.children = @ \o stack]
    IN  IF b.err # "" THEN [b |-> b, node |-> node]
        ELSE IF b.stabs = << >>
        THEN \* behind the loop: node.type
             IF node = << >> THEN Raise(b, "AttributeError")
             ELSE IF node[1].type = N_SO
             THEN [b |-> [b EXCEPT !.func_nodes_stack = << >>],
                   node |-> << Extended(node[1], b.func_nodes_stack) >>]
             ELSE [b |-> b, node |-> node]
        ELSE IF stab.type = TUPLE THEN Raise(popped, "AttributeError")
        ELSE IF stab.type = N_SO
        THEN IF node = << >>
             THEN IF IsDirectory(stab.string)
                  THEN build_subtree(popped, node, comp_unit, func_lineno,
                                     prev_lineno, stab.string)
                  ELSE build_subtree(
                           [popped EXCEPT !.table =
                               NewUnit(@, srcdir \o stab.string)],
                           << ProgramNode(N_SO, srcdir \o stab.string,
                                          stab.value, 0) >>,
                           << srcdir \o stab.string >>, func_lineno,
                           prev_lineno, srcdir)
             ELSE [b |-> [popped EXCEPT
                              !.stabs = << [stab EXCEPT !.type = TUPLE] >> \o @,
                              !.func_nodes_stack = << >>],
                   node |-> << [Extended(node[1], b.func_nodes_stack)
                                    EXCEPT !.end_addr = stab.value] >>]
        ELSE IF stab.type \in { N_GSYM, N_STSYM, N_LCSYM, N_PSYM }
        THEN IF node = << >> THEN Raise(popped, "AssertionError")
             ELSE Loop(popped,
                       << Extended(node[1],
                                   << ProgramNode(stab.type, stab.string,
                                                  stab.value, 0) >>) >>)
        ELSE IF stab.type \in { N_LSYM, N_RSYM }
        THEN Loop([popped EXCEPT !.nodes_stack =
                      Append(@, ProgramNode(stab.type, stab.string,
                                            stab.value, 0))],
                  node)
        ELSE IF stab.type = N_FUN
        THEN IF node = << >>
             THEN Loop([popped EXCEPT !.nodes_stack = << >>],
                       << Extended(ProgramNode(N_FUN, stab.string, stab.value,
                                               stab.desc),
                                   b.nodes_stack) >>)
             ELSE IF node[1].type = N_FUN
             THEN [b |-> b, node |-> << [node[1] EXCEPT !.end_addr = stab.value] >>]
             ELSE IF node[1].type = N_SO
             THEN LET r == build_subtree(b, << >>, << node[1].name >>, << >>,
                                         prev_lineno, "")
                  IN  IF r.b.err # "" THEN [b |-> r.b, node |-> node]
                      ELSE IF r.node[1].type # N_FUN
                      THEN Raise(r.b, "AssertionError")
                      ELSE Loop([r.b EXCEPT !.func_nodes_stack =
                                    Append(@, r.node[1])],
                                node)
             ELSE Raise(b, "AssertionError")
        ELSE IF stab.type = N_SLINE
        THEN LET r == sline(popped, stab, comp_unit, prev_lineno)
             IN  IF r.b.err # "" THEN [b |-> r.b, node |-> node]
                 ELSE build_subtree(r.b, node, comp_unit, func_lineno, r.prev,
                                    srcdir)
        ELSE IF stab.type = N_LBRAC
        THEN IF node # << >>
             THEN LET r == build_subtree(b, << >>, << >>, << node[1].lineno >>,
                                         << >>, "")
                  IN  IF r.b.err # "" THEN [b |-> r.b, node |-> node]
                      ELSE IF r.node[1].type # N_LBRAC
                      THEN Raise(r.b, "AssertionError")
                      ELSE Loop(r.b, << Extended(node[1], << r.node[1] >>) >>)
             ELSE LET scope == Extended(ProgramNode(N_LBRAC, "SCOPE",
                                                    stab.value, 0),
                                        b.nodes_stack)
                      nested ==
                          /\ b.func_nodes_stack # << >>
                          /\ b.func_nodes_stack[1].lineno > func_lineno[1]
                  IN  IF func_lineno = << >>
                      THEN [b |-> [popped EXCEPT !.nodes_stack = << >>,
                                                 !.err = "AssertionError"],
                            node |-> << scope >>]
                      ELSE IF nested
                      THEN Loop([popped EXCEPT !.nodes_stack = << >>,
                                               !.func_nodes_stack = << >>],
                                << Extended(scope, b.func_nodes_stack) >>)
                      ELSE Loop([popped EXCEPT !.nodes_stack = << >>],
                                << scope >>)
        ELSE IF stab.type = N_RBRAC
        THEN IF node = << >> THEN Raise(popped, "AttributeError")
             ELSE [b |-> popped,
                   node |-> << [node[1] EXCEPT !.end_addr = stab.value] >>]
        ELSE Raise(popped, "AssertionError")

\* ProgramTreeBuilder.build from the condition of its loop on: the children
\* of the root node so far are units
RECURSIVE build(_, _)
build(b, units) ==
    IF b.err # "" \/ b.stabs = << >> THEN [b |-> b, units |-> units]
    ELSE LET r == build_subtree(b, << >>, << >>, << >>, << >>, "")
         IN  IF r.b.err # "" THEN [b |-> r.b, units |-> units]
             ELSE build(r.b, Append(units, r.node[1]))

\* ProgramTreeBuilder(stabs): the stabs without the type definitions
ProgramTreeBuilder(list) ==
    [stabs |-> SelectSeq(list, LAMBDA e : ~(e.type = N_LSYM /\ e.value = 0)),
     nodes_stack |-> << >>, func_nodes_stack |-> << >>,
     table |-> [u \in {} |-> << >>], err |-> ""]

\* ProgramWithDebugInfo(stabs): the tree's root children, of which
\* get_comp_unit_for_addr reads name, start_addr and end_addr, and the
\* lines; err is the exception the constructor raises
ProgramWithDebugInfo(list) ==
    LET r == build(ProgramTreeBuilder(list), << >>)
    IN  [comp_units |-> r.units, addresses_by_lineno |-> r.b.table,
         err |-> r.b.err]

(***************************************************************************)
(* Program level: _init_debugger with --prog. The stabs of the executable  *)
(* are those of one or two compilation units of up to MaxFuncs functions;  *)
(* LoadProgram builds dbg.program from them.                               *)
(***************************************************************************)
\* functions per unit
MaxFuncs == 3

\* what the compiler emits for a function: the line numbers of its N_SLINE
\* records, relative to the line of the function, and the depth of its
\* block scopes
FuncShapes ==
    { [lines |-> << 0, 1 >>, scopes |-> 0],
      [lines |-> << 0, 1, 0, 2 >>, scopes |-> 0],
      [lines |-> << 0, 0 >>, scopes |-> 1],
      [lines |-> << 0 >>, scopes |-> 2],
      [lines |-> << >>, scopes |-> 0] }

FuncNames == << "f1", "f2", "f3", "f4" >>

\* the stabs of the k-th function of a unit, values not yet set. The
\* N_SLINE records stand in front of N_FUN (lines_first) or behind it;
\* locals stand in front of the N_LBRAC of their scope
FuncStabs(k, shape, lines_first) ==
    LET fun == << Stab(N_FUN, FuncNames[k], 10 * k, 0) >>
        slines == [i \in 1 .. Len(shape.lines) |->
                      Stab(N_SLINE, "", 10 * k + shape.lines[i], 0)]
        local == Stab(N_LSYM, "x", 0, 0)
        scopes == CASE shape.scopes = 0 -> << >>
                    [] shape.scopes = 1 ->
                          << local, Stab(N_LBRAC, "", 0, 0),
                             Stab(N_RBRAC, "", 0, 0) >>
                    [] OTHER ->
                          << local, Stab(N_LBRAC, "", 0, 0),
                             local, Stab(N_LBRAC, "", 0, 0),
                             Stab(N_RBRAC, "", 0, 0), Stab(N_RBRAC, "", 0, 0) >>
    IN  IF lines_first THEN slines \o fun \o scopes
        ELSE fun \o slines \o scopes

RECURSIVE FuncsStabs(_, _, _)
FuncsStabs(k, shapes, lines_first) ==
    IF k > Len(shapes) THEN << >>
    ELSE FuncStabs(k, shapes[k], lines_first)
             \o FuncsStabs(k + 1, shapes, lines_first)

\* the N_SO records of a unit
UnitStabs(name, with_dir) ==
    (IF with_dir THEN << Stab(N_SO, "src/", 0, 0) >> ELSE << >>)
        \o << Stab(N_SO, name, 0, 0) >>

\* the values: addresses that rise by 4 from stab to stab, or fall
WithValues(list, rising) ==
    [i \in 1 .. Len(list) |->
        [list[i] EXCEPT !.value = IF rising THEN 4 * i
                                  ELSE 4 * (Len(list) + 1 - i)]]

ShapeLists ==
    UNION { [1 .. n -> FuncShapes] : n \in 0 .. MaxFuncs }

StabStreams ==
    { WithValues(UnitStabs("main.c", with_dir)
                     \o FuncsStabs(1, shapes, lines_first)
                     \o (IF two_units THEN UnitStabs("util.c", with_dir)
                         ELSE << >>),
                 rising) :
        with_dir \in BOOLEAN, shapes \in ShapeLists, lines_first \in BOOLEAN,
        two_units \in BOOLEAN, rising \in BOOLEAN }

InitProgram ==
    /\ next_seqnum = 0
    /\ wire_out = << >>
    /\ wire_in = << >>
    /\ rbuf = << >>
    /\ pc = "idle"
    /\ ret = NoRet
    /\ calls = 0
    /\ last_sent = << >>
    /\ pending = << >>
    /\ acks_sent = 0
    /\ acks_rcvd = 0
    /\ frames_written = 0
    /\ frames_read = 0
    /\ InitCmdVars
    /\ dbg_target_info = << >>
    /\ dbg_program = << >>
    /\ stored_args = << >>
    /\ cli = NoCli
    /\ result = NoResult
    /\ session = "init"
    /\ server_conn = "none"
    /\ stabs \in StabStreams
    /\ exe_file = << >>
    /\ content_by_type = NoContent
    /\ next_instr_bytes = << >>
    /\ instr_tests = NoInstr
    /\ status_str = NoStatus
    /\ source_file = << >>
    /\ source_view = NoView
    /\ peer_closed = FALSE
    /\ empty_reads = 0
    /\ stabs_data = << >>
    /\ stabs_read = NoStabsRead

\* _init_debugger: dbg.program = ProgramWithDebugInfo.from_stabs_data(...);
\* an exception of the constructor ends main
LoadProgram ==
    /\ session = "init"
    /\ server_conn = "none"
    /\ dbg_program = << >>
    /\ stabs # << >>
    /\ LET p == ProgramWithDebugInfo(stabs)
       IN  IF p.err = ""
           THEN dbg_program' = << p >> /\ session' = session
           ELSE dbg_program' = << >> /\ session' = "fatal"
    /\ UNCHANGED << connVars, cmdVars, dbg_target_info, stored_args, cli, result,
                    server_conn, stabs, exeVars, instrVars, restVars >>

NextProgram == LoadProgram

SpecProgram == InitProgram /\ [][NextProgram]_vars

(***************************************************************************)
(* The lines of a loaded program (stabslib.py 409-425).                    *)
(***************************************************************************)
\* the program was built from the stabs
Loaded == dbg_program # << >> /\ stabs # << >>

\* the addresses of the stabs rise in file order
RisingStabs ==
    \A i \in 1 .. Len(stabs) - 1 : stabs[i].value < stabs[i + 1].value

\* the places of the N_SLINE records in the file
SlineRecords == { i \in 1 .. Len(stabs) : stabs[i].type = N_SLINE }

\* the first N_SLINE record of a line, the one that records it
FirstRecordOf(lineno) ==
    CHOOSE i \in SlineRecords :
        /\ stabs[i].desc = lineno
        /\ \A j \in SlineRecords : stabs[j].desc = lineno => i <= j

\* the N_SLINE records behind place i
SlinesBehind(i) == { j \in SlineRecords : j > i }

\* the next N_SLINE record behind place i
NextSline(i) ==
    CHOOSE j \in SlinesBehind(i) : \A k \in SlinesBehind(i) : j <= k

\* the lines recorded for the units of the program
LineTables ==
    { dbg_program[1].addresses_by_lineno[u] :
        u \in DOMAIN dbg_program[1].addresses_by_lineno }

\* C22: after a unit whose addresses rise in file order is decoded, every
\* recorded line but the last one recorded has a range [a, b) with a < b,
\* where b is the address of the next N_SLINE record behind the one that
\* recorded the line, and only the last line has b = 0; also with several
\* functions and with line numbers that do not rise from record to record.
C22_LineRangesChain ==
    (Loaded /\ RisingStabs) =>
        \A t \in LineTables :
            \A i \in 1 .. Len(t) :
                IF i = Len(t) THEN t[i][3] = 0
                ELSE /\ t[i][2] < t[i][3]
                     /\ t[i][3] = stabs[NextSline(FirstRecordOf(t[i][1]))].value

\* the N_SLINE records of a line
RecordsOf(lineno) == { i \in SlineRecords : stabs[i].desc = lineno }

\* the line numbers that several N_SLINE records carry
RepeatedLines ==
    { stabs[i].desc : i \in { j \in SlineRecords : Cardinality(RecordsOf(stabs[j].desc)) > 1 } }

\* the entries of a table for a line
EntriesOf(t, lineno) == { i \in 1 .. Len(t) : t[i][1] = lineno }

\* C23 as amended: a line number that several N_SLINE records of a unit
\* carry has exactly one range, whose start is the address of the first of
\* those records in the file; that is the lowest of their addresses when
\* the addresses rise in file order.
C23_FirstRecordKept ==
    Loaded =>
        \A t \in LineTables : \A l \in RepeatedLines :
            /\ Cardinality(EntriesOf(t, l)) = 1
            /\ \A i \in EntriesOf(t, l) :
                /\ t[i][2] = stabs[FirstRecordOf(l)].value
                /\ RisingStabs =>
                       \A j \in RecordsOf(l) : t[i][2] <= stabs[j].value

\* a program is loaded in which a line has several records
C23_Witness ==
    /\ Loaded
    /\ RisingStabs
    /\ RepeatedLines # {}
    /\ \E t \in LineTables : \E l \in RepeatedLines : \E i \in EntriesOf(t, l) :
           \E j \in RecordsOf(l) : t[i][2] < stabs[j].value

\* C23 as stated: the start kept for a line with several records is the
\* lowest address among those records
C23_LowestRecordKept ==
    Loaded =>
        \A t \in LineTables : \A l \in RepeatedLines :
            /\ Cardinality(EntriesOf(t, l)) = 1
            /\ \A i \in EntriesOf(t, l) : \A j \in RecordsOf(l) :
                   t[i][2] <= stabs[j].value

\* C24: for every unit and every recorded line range [a, b) with b > 0,
\* get_lineno_for_addr(a) and get_lineno_for_addr(b - 1) return that line
\* and get_addr_range_for_lineno of the line returns (a, b); stated here
\* for the programs whose stabs have rising addresses, where a < b.
C24_RangeLookupsAgree ==
    (Loaded /\ RisingStabs) =>
        LET p == dbg_program[1]
        IN  \A u \in DOMAIN p.addresses_by_lineno :
                \A i \in 1 .. Len(p.addresses_by_lineno[u]) :
                    LET e == p.addresses_by_lineno[u][i]
                    IN  e[3] > 0 =>
                            /\ get_lineno_for_addr(p, e[2], u) = << e[1] >>
                            /\ get_lineno_for_addr(p, e[3] - 1, u) = << e[1] >>
                            /\ get_addr_range_for_lineno(p, e[1], << u >>).range
                                   = << e[2], e[3] >>

\* the N_SO records for file names, in file order
FileNameRecords ==
    SelectSeq(stabs, LAMBDA e : e.type = N_SO /\ ~IsDirectory(e.string))

\* C25: for a stab stream with two or more N_SO file-name records decoding
\* completes and the root has one unit child per file name, in file order;
\* each unit's end_addr is the start_addr of the next unit, the last unit's
\* end_addr is 0, and get_comp_unit_for_addr returns the unit whose range
\* holds the address.
C25_UnitsChain ==
    [][(LoadProgram /\ Len(FileNameRecords) >= 2) =>
          /\ dbg_program' # << >>
          /\ LET p == dbg_program'[1]
                 us == p.comp_units
                 n == Len(FileNameRecords)
             IN  /\ Len(us) = n
                 /\ \A i \in 1 .. n :
                     /\ us[i].type = N_SO
                     /\ us[i].start_addr = FileNameRecords[i].value
                     /\ us[i].end_addr = IF i < n THEN us[i + 1].start_addr ELSE 0
                     /\ RisingStabs =>
                            get_comp_unit_for_addr(p, us[i].start_addr)
                                = << us[i].name >>]_vars

(***************************************************************************)
(* The functions of a loaded program (stabslib.py 382-407, 427-463).       *)
(***************************************************************************)
\* the N_FUN records, in file order
FunRecords == SelectSeq(stabs, LAMBDA e : e.type = N_FUN)

\* the function nodes of a list of nodes and of all that is below them
RECURSIVE FunNodes(_)
FunNodes(list) ==
    IF list = << >> THEN << >>
    ELSE (IF Head(list).type = N_FUN THEN << Head(list) >> ELSE << >>)
             \o FunNodes(Head(list).children) \o FunNodes(Tail(list))

\* the places of the nodes of a list that are the function of record k
NodesOf(list, k) ==
    { i \in 1 .. Len(list) :
        /\ list[i].type = N_FUN
        /\ list[i].name = FunRecords[k].string
        /\ list[i].start_addr = FunRecords[k].value }

\* the function of record k is written inside a later function of the unit:
\* its line is behind the line of that function
NestedFun(k) ==
    \E j \in k + 1 .. Len(FunRecords) : FunRecords[j].desc < FunRecords[k].desc

\* C26: in a unit with more than one function whose N_FUN addresses rise in
\* file order each function's end_addr is the start address of the next
\* N_FUN record of the unit, so the ranges do not overlap, and every
\* function is a child of its unit (or of the scope it is nested in)
\* exactly once.
C26_FunctionsChain ==
    (Loaded /\ RisingStabs /\ Len(FunRecords) > 1) =>
        LET unit == dbg_program[1].comp_units[1]
            all == FunNodes(<< unit >>)
        IN  \A k \in 1 .. Len(FunRecords) :
                /\ Cardinality(NodesOf(all, k)) = 1
                /\ \A i \in NodesOf(all, k) :
                       k < Len(FunRecords) =>
                           /\ all[i].end_addr = FunRecords[k + 1].value
                           /\ all[i].start_addr < all[i].end_addr
                /\ ~NestedFun(k) => Cardinality(NodesOf(unit.children, k)) = 1

(***************************************************************************)
(* hunklib.py: reading an executable in the Amiga Hunk format. The file is *)
(* a sequence of 32-bit words; every read of the code asks for a multiple  *)
(* of 4 bytes.                                                             *)
(***************************************************************************)
HUNK_UNIT == 999

HUNK_NAME == 1000

HUNK_CODE == 1001

HUNK_DATA == 1002

HUNK_BSS == 1003

HUNK_RELOC32 == 1004

HUNK_RELOC16 == 1005

HUNK_RELOC8 == 1006

HUNK_EXT == 1007

HUNK_SYMBOL == 1008

HUNK_DEBUG == 1009

HUNK_END == 1010

HUNK_HEADER == 1011

HUNK_OVERLAY == 1013

HUNK_BREAK == 1014

HUNK_DREL32 == 1015

HUNK_DREL16 == 1016

HUNK_DREL8 == 1017

HUNK_LIB == 1018

HUNK_INDEX == 1019

\* the values of BlockTypes
BlockTypes == (999 .. 1011) \cup (1013 .. 1019)

EXT_DEF == 1

EXT_ABS == 2

EXT_RES == 3

EXT_REF32 == 129

EXT_REF16 == 131

EXT_REF8 == 132

\* b'LINE' as a big-endian word
LINE == 1279872581

\* exe_file.read(4 * n): the words read and the rest of the file
Read(f, n) ==
    LET k == IF n < Len(f) THEN n ELSE Len(f)
    IN  [data |-> SubSeq(f, 1, k), rest |-> SubSeq(f, k + 1, Len(f))]

\* the result of a reader: the value it returns (<< >> for None, << data >>
\* for bytes), the rest of the file and the exception it raises
Returns(val, rest) == [val |-> val, rest |-> rest, err |-> ""]

Raises(err, rest) == [val |-> << >>, rest |-> rest, err |-> err]

\* _read_word: the word as val
read_word(f) ==
    IF f = << >> THEN Raises("EOFError", f) ELSE Returns(Head(f), Tail(f))

\* the words from place i on read one after the other by _read_word, n of
\* them
RECURSIVE read_words(_, _)
read_words(f, n) ==
    IF n <= 0 THEN Returns(<< >>, f)
    ELSE IF f = << >> THEN Raises("EOFError", f)
    ELSE read_words(Tail(f), n - 1)

\* every byte of the word is below 128
IsAscii(w) ==
    \A k \in 0 .. 3 : (w \div (256 ^ k)) % 256 < 128

\* _read_string(exe_file, 4 * n): an empty read returns (does not raise)
\* EOFError; unpack wants all the bytes, decode wants ASCII
read_string(f, n) ==
    LET r == Read(f, n)
    IN  IF r.data = << >> THEN Returns(<< >>, r.rest)
        ELSE IF Len(r.data) < n THEN Raises("error", r.rest)
        ELSE IF \E i \in 1 .. n : ~IsAscii(r.data[i])
        THEN Raises("UnicodeDecodeError", r.rest)
        ELSE Returns(<< r.data >>, r.rest)

\* _read_header_block
read_header_block(f) ==
    LET four == read_words(f, 2)
        first == read_word(four.rest)
        last == read_word(first.rest)
    IN  IF four.err # "" THEN four
        ELSE IF first.err # "" THEN first
        ELSE IF last.err # "" THEN last
        ELSE read_words(last.rest, last.val + 1 - first.val)

\* _read_code_block and _read_data_block
read_code_block(f) ==
    LET nwords == read_word(f)
    IN  IF nwords.err # "" THEN nwords
        ELSE Returns(<< Read(nwords.rest, nwords.val).data >>,
                     Read(nwords.rest, nwords.val).rest)

\* _read_bss_block
read_bss_block(f) ==
    LET nwords == read_word(f)
    IN  IF nwords.err # "" THEN nwords ELSE Returns(<< >>, nwords.rest)

\* _read_ext_block
RECURSIVE read_ext_block(_)
read_ext_block(f) ==
    LET type_len == read_word(f)
        sym_type == type_len.val \div 16777216
        sym_name == read_string(type_len.rest, type_len.val % 16777216)
        value == read_word(sym_name.rest)
        refs == read_words(value.rest, value.val)
    IN  IF type_len.err # "" THEN type_len
        ELSE IF type_len.val = 0 THEN Returns(<< >>, type_len.rest)
        ELSE IF sym_name.err # "" THEN sym_name
        ELSE IF sym_type \in { EXT_DEF, EXT_ABS, EXT_RES }
        THEN IF value.err # "" THEN value ELSE read_ext_block(value.rest)
        ELSE IF sym_type \in { EXT_REF8, EXT_REF16, EXT_REF32 }
        THEN IF value.err # "" THEN value
             ELSE IF refs.err # "" THEN refs
             ELSE read_ext_block(refs.rest)
        ELSE Raises("ValueError", sym_name.rest)

\* _read_symbol_block
RECURSIVE read_symbol_block(_)
read_symbol_block(f) ==
    LET nwords == read_word(f)
        sym_name == read_string(nwords.rest, nwords.val)
        sym_val == read_word(sym_name.rest)
    IN  IF nwords.err # "" THEN nwords
        ELSE IF nwords.val = 0 THEN Returns(<< >>, nwords.rest)
        ELSE IF sym_name.err # "" THEN sym_name
        ELSE IF sym_val.err # "" THEN sym_val
        ELSE read_symbol_block(sym_val.rest)

\* _read_reloc32_block
RECURSIVE read_reloc32_block(_)
read_reloc32_block(f) ==
    LET noffsets == read_word(f)
        ref_hnum == read_word(noffsets.rest)
        offsets == read_words(ref_hnum.rest, noffsets.val)
    IN  IF noffsets.err # "" THEN noffsets
        ELSE IF noffsets.val = 0 THEN Returns(<< >>, noffsets.rest)
        ELSE IF ref_hnum.err # "" THEN ref_hnum
        ELSE IF offsets.err # "" THEN offsets
        ELSE read_reloc32_block(offsets.rest)

\* _read_debug_block returning the payload without its first word
read_debug_block_DropsFirstWord(f) ==
    LET nwords == read_word(f)
        r == Read(nwords.rest, nwords.val)
    IN  IF nwords.err # "" THEN nwords
        ELSE IF Len(r.data) >= 2 /\ r.data[2] = LINE
        THEN Raises("TypeError", r.rest)
        ELSE IF r.data = << >> THEN Returns(<< r.data >>, r.rest)
        ELSE Returns(<< Tail(r.data) >>, r.rest)

\* _read_debug_block: data[4:8] == b'LINE' leads to unpack('>L') without a
\* buffer, a TypeError; any other payload is returned
read_debug_block(f) ==
    LET nwords == read_word(f)
        r == Read(nwords.rest, nwords.val)
    IN  IF nwords.err # "" THEN nwords
        ELSE IF Len(r.data) >= 2 /\ r.data[2] = LINE
        THEN Raises("TypeError", r.rest)
        ELSE Returns(<< r.data >>, r.rest)

\* the block types with a reader
READ_FUNC_BY_BLOCK_TYPE ==
    { HUNK_HEADER, HUNK_UNIT, HUNK_NAME, HUNK_CODE, HUNK_DATA, HUNK_BSS,
      HUNK_EXT, HUNK_SYMBOL, HUNK_RELOC32, HUNK_DEBUG }

\* READ_FUNC_BY_BLOCK_TYPE[block_type](exe_file); _read_unit_block and
\* _read_name_block call _read_string without its second argument
read_block(block_type, f) ==
    CASE block_type = HUNK_HEADER -> read_header_block(f)
      [] block_type \in { HUNK_UNIT, HUNK_NAME } -> Raises("TypeError", f)
      [] block_type \in { HUNK_CODE, HUNK_DATA } -> read_code_block(f)
      [] block_type = HUNK_BSS -> read_bss_block(f)
      [] block_type = HUNK_EXT -> read_ext_block(f)
      [] block_type = HUNK_SYMBOL -> read_symbol_block(f)
      [] block_type = HUNK_RELOC32 -> read_reloc32_block(f)
      [] block_type = HUNK_DEBUG -> read_debug_block(f)

\* content_by_type[block_type] = value: a new key comes last
SetContent(content, block_type, value) ==
    IF \E i \in 1 .. Len(content) : content[i][1] = block_type
    THEN [i \in 1 .. Len(content) |->
             IF content[i][1] = block_type THEN << block_type, value >>
             ELSE content[i]]
    ELSE Append(content, << block_type, value >>)

\* the loop of read_exe with the file from the reading position on, the
\* content so far and block_type (<< >> while it is not yet assigned)
RECURSIVE read_exe_loop(_, _, _)
read_exe_loop(f, content, block_type) ==
    IF f = << >>
    THEN \* EOFError of _read_word; the handler reads block_type
         IF block_type = << >>
         THEN [content |-> content, err |-> "UnboundLocalError", returned |-> FALSE]
         ELSE [content |-> content, err |-> "", returned |-> TRUE]
    ELSE IF Head(f) \notin BlockTypes
    THEN [content |-> content, err |-> "ValueError", returned |-> FALSE]
    ELSE IF Head(f) = HUNK_END
    THEN read_exe_loop(Tail(f), content, << HUNK_END >>)
    ELSE IF Head(f) \notin READ_FUNC_BY_BLOCK_TYPE
    THEN [content |-> content, err |-> "", returned |-> TRUE]
    ELSE LET r == read_block(Head(f), Tail(f))
         IN  IF r.err = "EOFError"
             THEN [content |-> content, err |-> "", returned |-> TRUE]
             ELSE IF r.err # ""
             THEN [content |-> content, err |-> r.err, returned |-> FALSE]
             ELSE read_exe_loop(r.rest, SetContent(content, Head(f), r.val),
                                << Head(f) >>)

\* read_exe(fname) for the file with these words
read_exe(f) == read_exe_loop(f, << >>, << >>)

(***************************************************************************)
(* Reading executables: the files are an optional HUNK_HEADER block and up *)
(* to MaxBlocks further blocks, whole or cut short.                        *)
(***************************************************************************)
\* blocks behind the header
MaxBlocks == 3

\* "main" as a big-endian word
NameWord == 1835100526

\* HUNK_HEADER blocks for one hunk and for two, and no header
ExeHeaders ==
    { << >>,
      << HUNK_HEADER, 0, 1, 0, 0, 2 >>,
      << HUNK_HEADER, 0, 2, 0, 1, 2, 1 >> }

\* the blocks a linker writes, and what stands for a damaged file: a
\* payload shorter than its length word, a type without a reader, a word
\* that is no block type
ExeBlocks ==
    { << HUNK_CODE, 2, 20085, 7 >>,
      << HUNK_DATA, 1, 9 >>,
      << HUNK_BSS, 4 >>,
      << HUNK_RELOC32, 1, 0, 4, 0 >>,
      << HUNK_SYMBOL, 1, NameWord, 8, 0 >>,
      << HUNK_EXT, 16777217, NameWord, 8, 0 >>,
      << HUNK_DEBUG, 3, 0, 5, 6 >>,
      << HUNK_DEBUG, 3, 0, LINE, 6 >>,
      << HUNK_DEBUG, 0 >>,
      << HUNK_DEBUG, 3, 0 >>,
      << HUNK_END >>,
      << HUNK_NAME, 1, NameWord >>,
      << HUNK_OVERLAY >>,
      << 5 >> }

RECURSIVE Concat(_)
Concat(lists) ==
    IF lists = << >> THEN << >> ELSE Head(lists) \o Concat(Tail(lists))

ExeFiles ==
    { h \o Concat(blocks) :
        h \in ExeHeaders,
        blocks \in UNION { [1 .. n -> ExeBlocks] : n \in 0 .. MaxBlocks } }

InitExe ==
    /\ next_seqnum = 0
    /\ wire_out = << >>
    /\ wire_in = << >>
    /\ rbuf = << >>
    /\ pc = "idle"
    /\ ret = NoRet
    /\ calls = 0
    /\ last_sent = << >>
    /\ pending = << >>
    /\ acks_sent = 0
    /\ acks_rcvd = 0
    /\ frames_written = 0
    /\ frames_read = 0
    /\ InitCmdVars
    /\ dbg_target_info = << >>
    /\ dbg_program = << >>
    /\ stored_args = << >>
    /\ cli = NoCli
    /\ result = NoResult
    /\ session = "init"
    /\ server_conn = "none"
    /\ stabs = << >>
    /\ exe_file \in ExeFiles
    /\ content_by_type = NoContent
    /\ next_instr_bytes = << >>
    /\ instr_tests = NoInstr
    /\ status_str = NoStatus
    /\ source_file = << >>
    /\ source_view = NoView
    /\ peer_closed = FALSE
    /\ empty_reads = 0
    /\ stabs_data = << >>
    /\ stabs_read = NoStabsRead

\* read_exe(fname), called once
ReadExe ==
    /\ content_by_type = NoContent
    /\ content_by_type' = read_exe(exe_file)
    /\ UNCHANGED << connVars, cmdVars, dbg_target_info, dbg_program, stored_args,
                    cli, result, session, server_conn, stabs, exe_file, instrVars, restVars >>

NextExe == ReadExe

SpecExe == InitExe /\ [][NextExe]_vars

\* the block types that have an entry in what read_exe returned
TypesRead ==
    { content_by_type.content[i][1] : i \in 1 .. Len(content_by_type.content) }

\* the entry of a block type
EntryOf(block_type) ==
    LET i == CHOOSE j \in 1 .. Len(content_by_type.content) :
                 content_by_type.content[j][1] = block_type
    IN  content_by_type.content[i][2]

\* the HUNK_DEBUG blocks of the files that are whole and not in LINE format
StabsBlocks ==
    { b \in ExeBlocks :
        /\ b[1] = HUNK_DEBUG
        /\ Len(b) = b[2] + 2
        /\ ~(Len(b) >= 4 /\ b[4] = LINE) }

\* the file is one HUNK_HEADER, one HUNK_CODE, HUNK_DEBUG block d and one
\* HUNK_END
FourBlocks(d) ==
    \E h \in ExeHeaders \ { << >> } :
        \E c \in { b \in ExeBlocks : b[1] = HUNK_CODE } :
            exe_file = h \o c \o d \o << HUNK_END >>

\* C27 as amended: read_exe on a file of one HUNK_HEADER, one HUNK_CODE, one
\* HUNK_DEBUG (STABS) and one HUNK_END block returns a mapping with entries
\* for HUNK_HEADER, HUNK_CODE and HUNK_DEBUG and none for HUNK_END; the
\* HUNK_HEADER entry is None and the HUNK_DEBUG entry is the payload
\* unchanged.
C27_ThreeEntries ==
    \A d \in StabsBlocks :
        (FourBlocks(d) /\ content_by_type # NoContent) =>
            /\ content_by_type.returned
            /\ content_by_type.err = ""
            /\ Len(content_by_type.content) = 3
            /\ TypesRead = { HUNK_HEADER, HUNK_CODE, HUNK_DEBUG }
            /\ EntryOf(HUNK_HEADER) = << >>
            /\ EntryOf(HUNK_DEBUG) = << SubSeq(d, 3, Len(d)) >>

\* read_exe has returned for such a file with a payload of three words
C27_Witness ==
    /\ content_by_type.returned
    /\ \E d \in StabsBlocks : Len(d) = 5 /\ FourBlocks(d)
    /\ HUNK_DEBUG \in TypesRead

\* C27 as stated: the block types of the mapping are exactly the four of
\* the file, and the HUNK_DEBUG entry is the payload unchanged
C27_FourEntries ==
    \A d \in StabsBlocks :
        (FourBlocks(d) /\ content_by_type # NoContent) =>
            /\ content_by_type.returned
            /\ TypesRead = { HUNK_HEADER, HUNK_CODE, HUNK_DEBUG, HUNK_END }
            /\ EntryOf(HUNK_DEBUG) = << SubSeq(d, 3, Len(d)) >>

(***************************************************************************)
(* The tests of the next instruction on the bytes of next_instr_bytes      *)
(* (target.py 123-137, 303-314).                                           *)
(***************************************************************************)
\* struct.unpack('>H', bytes)[0]
UnpackUint16(bytes) == bytes[1] * 256 + bytes[2]

\* struct.unpack('>h', bytes)[0]
UnpackInt16(bytes) ==
    IF UnpackUint16(bytes) >= 32768 THEN UnpackUint16(bytes) - 65536
    ELSE UnpackUint16(bytes)

\* the TargetInfo with these next_instr_bytes, as far as the tests read it
WithInstrBytes(bytes) == [instr |-> UnpackUint16(SubSeq(bytes, 1, 2))]

\* _next_instr_is_syscall: (word & 0xffff) == 0x4eae
next_instr_is_syscall(bytes) ==
    UnpackUint16(SubSeq(bytes, 1, 2)) % 65536 = 20142

\* _get_syscall_offset: abs() of the signed word in bytes 2..4
get_syscall_offset(bytes) ==
    LET d == UnpackInt16(SubSeq(bytes, 3, 4))
    IN  IF d < 0 THEN -d ELSE d

\* the bytes 2..4 of the model
DisplacementBytes == { 0, 1, 30, 127, 128, 226, 255 }

\* next_instr_bytes: every first word, and every displacement of the model
\* behind the words 0x4e00..0x4eff
InstrBytes ==
    { << b0, b1, 255, 226 >> : b0 \in 0 .. 255, b1 \in 0 .. 255 }
        \cup { << 78, b1, b2, b3 >> :
                 b1 \in 0 .. 255, b2 \in DisplacementBytes,
                 b3 \in DisplacementBytes }

InitInstr ==
    /\ next_seqnum = 0
    /\ wire_out = << >>
    /\ wire_in = << >>
    /\ rbuf = << >>
    /\ pc = "idle"
    /\ ret = NoRet
    /\ calls = 0
    /\ last_sent = << >>
    /\ pending = << >>
    /\ acks_sent = 0
    /\ acks_rcvd = 0
    /\ frames_written = 0
    /\ frames_read = 0
    /\ InitCmdVars
    /\ dbg_target_info = << >>
    /\ dbg_program = << >>
    /\ stored_args = << >>
    /\ cli = NoCli
    /\ result = NoResult
    /\ session = "prompt"
    /\ server_conn = "dbg"
    /\ stabs = << >>
    /\ exe_file = << >>
    /\ content_by_type = NoContent
    /\ next_instr_bytes \in InstrBytes
    /\ instr_tests = NoInstr
    /\ status_str = NoStatus
    /\ source_file = << >>
    /\ source_view = NoView
    /\ peer_closed = FALSE
    /\ empty_reads = 0
    /\ stabs_data = << >>
    /\ stabs_read = NoStabsRead

\* the tests called on a TargetInfo that has arrived
TestInstr ==
    /\ instr_tests = NoInstr
    /\ instr_tests' =
           [jsr |-> next_instr_is_jsr(WithInstrBytes(next_instr_bytes)),
            rts |-> next_instr_is_rts(WithInstrBytes(next_instr_bytes)),
            syscall |-> next_instr_is_syscall(next_instr_bytes),
            offset |-> get_syscall_offset(next_instr_bytes)]
    /\ UNCHANGED << connVars, cmdVars, dbg_target_info, dbg_program, stored_args,
                    cli, result, session, server_conn, stabs, exeVars,
                    next_instr_bytes, status_str, restVars >>

NextInstr == TestInstr

SpecInstr == InitInstr /\ [][NextInstr]_vars

\* the tests have been called
Tested == instr_tests # NoInstr

\* the first word of next_instr_bytes
FirstWord == next_instr_bytes[1] * 256 + next_instr_bytes[2]

\* the word in bytes 2..4 of next_instr_bytes
Displacement == next_instr_bytes[3] * 256 + next_instr_bytes[4]

\* C28: for every 16-bit first word w next_instr_is_jsr holds iff
\* (w & 0xFFC0) = 0x4E80, next_instr_is_rts iff w = 0x4E75 and the syscall
\* test iff w = 0x4EAE, so every syscall word is a JSR and no word is both
\* JSR and RTS; the syscall offset is the absolute value of the signed
\* 16-bit displacement in bytes 2..4.
C28_InstrTests ==
    Tested =>
        /\ instr_tests.jsr <=> FirstWord - (FirstWord % 64) = 20096
        /\ instr_tests.rts <=> FirstWord = 20085
        /\ instr_tests.syscall <=> FirstWord = 20142
        /\ instr_tests.syscall => instr_tests.jsr
        /\ ~(instr_tests.jsr /\ instr_tests.rts)
        /\ instr_tests.offset = IF Displacement >= 32768
                                THEN 65536 - Displacement ELSE Displacement

\* the tests were called on JSR -30(A6)
C28_Witness ==
    /\ Tested
    /\ next_instr_bytes = << 78, 174, 255, 226 >>
    /\ instr_tests.syscall
    /\ instr_tests.jsr
    /\ instr_tests.offset = 30

(***************************************************************************)
(* TargetInfo.get_status_str (target.py 151-172), which the UI shows for   *)
(* the last TargetInfo.                                                    *)
(***************************************************************************)
\* the text returned with the numbers put into it, or the exception raised
StatusText(text, nums) == [text |-> text, nums |-> nums, err |-> ""]

StatusRaises(err) == [text |-> "", nums |-> << >>, err |-> err]

\* get_status_str with the test for a single step in front of the tests
\* for breakpoints
get_status_str_StepFirst(t) ==
    IF HasBit(t.target_state, TS_STOPPED_BY_SINGLE_STEP)
    THEN StatusText("Stopped after single-stepping", << >>)
    ELSE IF HasBit(t.target_state, TS_STOPPED_BY_BPOINT)
    THEN StatusText("Hit breakpoint",
                    << t.bpoint_num, t.bpoint_address - t.initial_pc,
                       t.bpoint_hit_count >>)
    ELSE IF HasBit(t.target_state, TS_STOPPED_BY_ONE_SHOT_BPOINT)
    THEN StatusText("Hit one-shot breakpoint",
                    << t.bpoint_num, t.bpoint_address - t.initial_pc >>)
    ELSE IF HasBit(t.target_state, TS_STOPPED_BY_EXCEPTION)
    THEN StatusText("Stopped by exception", << t.exc_num >>)
    ELSE IF t.target_state = TS_EXITED
    THEN StatusText("Exited with code", << t.exit_code >>)
    ELSE IF t.target_state = TS_KILLED
    THEN StatusText("Killed", << >>)
    ELSE IF t.target_state = TS_ERROR
    THEN IF t.error_code \in ErrorCodes
         THEN StatusText("Error occured", << t.error_code >>)
         ELSE StatusRaises("ValueError")
    ELSE StatusRaises("AssertionError")

\* get_status_str
get_status_str(t) ==
    IF HasBit(t.target_state, TS_STOPPED_BY_BPOINT)
    THEN StatusText("Hit breakpoint",
                    << t.bpoint_num, t.bpoint_address - t.initial_pc,
                       t.bpoint_hit_count >>)
    ELSE IF HasBit(t.target_state, TS_STOPPED_BY_ONE_SHOT_BPOINT)
    THEN StatusText("Hit one-shot breakpoint",
                    << t.bpoint_num, t.bpoint_address - t.initial_pc >>)
    ELSE IF HasBit(t.target_state, TS_STOPPED_BY_SINGLE_STEP)
    THEN StatusText("Stopped after single-stepping", << >>)
    ELSE IF HasBit(t.target_state, TS_STOPPED_BY_EXCEPTION)
    THEN StatusText("Stopped by exception", << t.exc_num >>)
    ELSE IF t.target_state = TS_EXITED
    THEN StatusText("Exited with code", << t.exit_code >>)
    ELSE IF t.target_state = TS_KILLED
    THEN StatusText("Killed", << >>)
    ELSE IF t.target_state = TS_ERROR
    THEN IF t.error_code \in ErrorCodes
         THEN StatusText("Error occured", << t.error_code >>)
         ELSE StatusRaises("ValueError")
    ELSE StatusRaises("AssertionError")

\* the bits of TargetStates
StateBits ==
    { TS_RUNNING, TS_SINGLE_STEPPING, TS_EXITED, TS_KILLED,
      TS_STOPPED_BY_BPOINT, TS_STOPPED_BY_ONE_SHOT_BPOINT,
      TS_STOPPED_BY_SINGLE_STEP, TS_STOPPED_BY_EXCEPTION, TS_ERROR }

RECURSIVE SumOf(_)
SumOf(S) ==
    IF S = {} THEN 0
    ELSE LET b == CHOOSE x \in S : TRUE IN b + SumOf(S \ { b })

\* every combination of the bits, with an error code that is a member of
\* ErrorCodes and one that is none
StatusInfos ==
    { [StopAtBpoint EXCEPT !.target_state = SumOf(bits), !.exc_num = 4,
                           !.exit_code = 20, !.error_code = e] :
        bits \in SUBSET StateBits, e \in { ERROR_OPEN_LIB_FAILED, 255 } }

InitStatus ==
    /\ next_seqnum = 0
    /\ wire_out = << >>
    /\ wire_in = << >>
    /\ rbuf = << >>
    /\ pc = "idle"
    /\ ret = NoRet
    /\ calls = 0
    /\ last_sent = << >>
    /\ pending = << >>
    /\ acks_sent = 0
    /\ acks_rcvd = 0
    /\ frames_written = 0
    /\ frames_read = 0
    /\ InitCmdVars
    /\ dbg_target_info \in { << t >> : t \in StatusInfos }
    /\ dbg_program = << >>
    /\ stored_args = << >>
    /\ cli = NoCli
    /\ result = NoResult
    /\ session = "prompt"
    /\ server_conn = "dbg"
    /\ stabs = << >>
    /\ exe_file = << >>
    /\ content_by_type = NoContent
    /\ next_instr_bytes = << >>
    /\ instr_tests = NoInstr
    /\ status_str = NoStatus
    /\ source_file = << >>
    /\ source_view = NoView
    /\ peer_closed = FALSE
    /\ empty_reads = 0
    /\ stabs_data = << >>
    /\ stabs_read = NoStabsRead

\* the UI shows dbg.target_info.get_status_str()
ShowStatus ==
    /\ status_str = NoStatus
    /\ dbg_target_info # << >>
    /\ status_str' = get_status_str(dbg_target_info[1])
    /\ UNCHANGED << connVars, cmdVars, dbg_target_info, dbg_program, stored_args,
                    cli, result, session, server_conn, stabs, exeVars,
                    next_instr_bytes, instr_tests, restVars >>

NextStatus == ShowStatus

SpecStatus == InitStatus /\ [][NextStatus]_vars

\* get_status_str has been called for the last TargetInfo
Shown == status_str # NoStatus /\ dbg_target_info # << >>

\* the bits with a status text, in the order of the tests
StatusOrder ==
    << TS_STOPPED_BY_BPOINT, TS_STOPPED_BY_ONE_SHOT_BPOINT,
       TS_STOPPED_BY_SINGLE_STEP, TS_STOPPED_BY_EXCEPTION, TS_EXITED,
       TS_KILLED, TS_ERROR >>

StatusTexts ==
    << "Hit breakpoint", "Hit one-shot breakpoint",
       "Stopped after single-stepping", "Stopped by exception",
       "Exited with code", "Killed", "Error occured" >>

\* the places among the first n of StatusOrder whose bit is set
SetAmong(n) ==
    { i \in 1 .. n : HasBit(dbg_target_info[1].target_state, StatusOrder[i]) }

\* the first of them
FirstAmong(n) == CHOOSE i \in SetAmong(n) : \A j \in SetAmong(n) : i <= j

\* C29 as amended: when one of the four STOPPED_BY bits is set,
\* get_status_str returns the text of the first of them that is set, also
\* with further bits set; otherwise it returns the text for EXITED, KILLED
\* or ERROR only when target_state is exactly that value, and raises
\* AssertionError for every other target_state.
C29_StatusOfFirstStopBit ==
    Shown =>
        LET state == dbg_target_info[1].target_state
        IN  /\ SetAmong(4) # {} =>
                /\ status_str.err = ""
                /\ status_str.text = StatusTexts[FirstAmong(4)]
            /\ (SetAmong(4) = {} /\ state = TS_EXITED) =>
                   status_str.text = "Exited with code"
            /\ (SetAmong(4) = {} /\ state = TS_KILLED) =>
                   status_str.text = "Killed"
            /\ (SetAmong(4) = {} /\ state = TS_ERROR) =>
                   IF dbg_target_info[1].error_code \in ErrorCodes
                   THEN status_str.text = "Error occured"
                   ELSE status_str.err = "ValueError"
            /\ (SetAmong(4) = {} /\ state \notin { TS_EXITED, TS_KILLED, TS_ERROR })
                   => status_str.err = "AssertionError"

\* the status of a target_state with the bits for a breakpoint, for a single
\* step and for the exit has been shown
C29_Witness ==
    /\ Shown
    /\ SetAmong(7) = { 1, 3, 5 }
    /\ status_str.text = "Hit breakpoint"

\* C29 as stated: whenever one of the seven bits is set get_status_str
\* returns the text of the first of them that is set, also with further
\* bits set (for an error code that has a name)
C29_StatusOfFirstBit ==
    (Shown /\ SetAmong(7) # {}
           /\ dbg_target_info[1].error_code \in ErrorCodes) =>
        /\ status_str.err = ""
        /\ status_str.text = StatusTexts[FirstAmong(7)]

(***************************************************************************)
(* Claims about the creation of the connection.                            *)
(***************************************************************************)
\* the step in which ServerConnection.__init__ opens the socket
Creates == session = "init" /\ server_conn = "none" /\ server_conn' # "none"

\* the step in which SrvInit().execute returns or raises
InitEnds == session = "init" /\ cli.command = "init" /\ session' # "init"

\* C30: creating the connection sends INIT as the first message, with
\* sequence number 0, and waits for its ACK; after successful creation
\* next_seq is 1 and no other message has been sent. If INIT is answered by
\* a NACK or by a message of another type, creation fails and no connection
\* object is available to the session.
C30_InitExchange ==
    /\ [][Creates =>
            /\ wire_out = << >> /\ last_sent = << >> /\ acks_sent = 0
            /\ wire_out' = SendFrame(0, MSG_INIT, << >>)
            /\ pc' = "reply"
            /\ session' = "init"]_vars
    /\ [][(session = "init" /\ session' = "init") =>
            (/\ server_conn' # "dbg"
             /\ wire_out' \in { << >>, SendFrame(0, MSG_INIT, << >>) }
             /\ acks_sent' = 0
             /\ next_seqnum' = 0)]_vars
    /\ [][InitEnds =>
            IF ret'.ok /\ ret'.type = MSG_ACK
            THEN /\ session' = "prompt"
                 /\ server_conn' = "dbg"
                 /\ next_seqnum' = 1
                 /\ wire_out' = << >> /\ acks_sent' = 0 /\ calls' = 0
            ELSE /\ session' = "fatal"
                 /\ server_conn' # "dbg"
                 /\ wire_out' = << >>]_vars

\* the connection has been created, and nothing has been typed yet
C30_Witness ==
    /\ session = "prompt"
    /\ server_conn = "dbg"
    /\ next_seqnum = 1
    /\ stored_args = << >>
    /\ ret.type = MSG_ACK

(***************************************************************************)
(* Claims about nexti (cli.py 324-344).                                    *)
(***************************************************************************)
\* the host's request of this step is run-causing
SendsRunCausing == HostSends /\ Sent.type \in RunCausing

\* C31: nexti sends one run-causing command. In front of a JSR it sends a
\* one-shot SET_BPOINT at the offset behind the JSR and, when that got its
\* ACK, CONT; in front of any other instruction it sends STEP. A run-causing
\* request of nexti is that STEP or that CONT, and none follows it. After a
\* NACK of the SET_BPOINT nothing is sent and the last TargetInfo stays.
C31_NextInstrRequests ==
    /\ [][(LineFor("nexti") /\ Running(dbg_target_info))
            => LET t == dbg_target_info[1]
               IN  /\ HostSends
                   /\ wire_out' = wire_out \o SentFrames
                   /\ dbg_target_info' = dbg_target_info
                   /\ IF next_instr_is_jsr(t)
                      THEN /\ Sent.type = MSG_SET_BPOINT
                           /\ Sent.data = U32Bytes(OffsetBehind(t)) \o U16Bytes(1)
                      ELSE /\ Sent.type = MSG_STEP
                           /\ Sent.data = << >>]_vars
    /\ [][(SendsRunCausing /\ cli'.command = "nexti")
            => \/ /\ LineFor("nexti")
                  /\ ~next_instr_is_jsr(dbg_target_info[1])
                  /\ Sent.type = MSG_STEP
               \/ /\ ReplyEnds
                  /\ Head(pending).type = MSG_ACK
                  /\ Head(pending).seqnum = next_seqnum
                  /\ cmd.msg_type = MSG_SET_BPOINT
                  /\ next_instr_is_jsr(dbg_target_info[1])
                  /\ Sent.type = MSG_CONT
                  /\ wire_out' = wire_out \o SentFrames]_vars
    /\ [][(ReplyEnds /\ cli.command = "nexti" /\ cmd.msg_type = MSG_SET_BPOINT
            /\ Head(pending).type = MSG_ACK
            /\ Head(pending).seqnum = next_seqnum)
            => (SendsRunCausing /\ Sent.type = MSG_CONT
                    /\ cli'.command = "nexti")]_vars
    /\ [][(cli.command = "nexti" /\ cmd.msg_type \in RunCausing /\ HostSends)
            => (Sent.type = MSG_ACK /\ cli' = NoCli)]_vars
    /\ [][(NackReceived /\ cli.command = "nexti"
            /\ cmd.msg_type = MSG_SET_BPOINT)
            => (/\ wire_out' = wire_out
                /\ dbg_target_info' = dbg_target_info
                /\ FailureMessage("nexti"))]_vars

\* C31's case: nexti in front of a JSR has got the ACK of its SET_BPOINT and
\* has sent CONT
C31_Witness ==
    /\ cli.command = "nexti"
    /\ cmd.msg_type = MSG_CONT
    /\ pc = "reply"
    /\ dbg_target_info = << StopAtJsr >>
    /\ stored_args = << Line("nexti", "") >>

(***************************************************************************)
(* TargetInfo.get_source_view (target.py 214-253). A line of the view is   *)
(* [lineno, current]: the text f'{lineno:<4}:    {line}' of line lineno,   *)
(* whose columns 6..8 are '=> ' when current. A file is [readable, n]: n   *)
(* lines, or one that open() or readlines() fails on.                      *)
(***************************************************************************)
\* ['*** NOT AVAILABLE ***\n']
NotAvailable == [returned |-> TRUE, err |-> "", header |-> << >>, lines |-> << >>]

\* source_lines as the list comprehension builds it
SourceLines(n) == [i \in 1 .. n |-> [lineno |-> i, current |-> FALSE]]

\* list[lo:hi] of Python for 0 <= lo: the elements lo + 1 .. hi
PySlice(list, lo, hi) ==
    IF hi < 0 THEN SubSeq(list, lo + 1, Len(list) + hi)
    ELSE SubSeq(list, lo + 1, IF hi > Len(list) THEN Len(list) ELSE hi)

\* get_lineno_for_addr(addr) without comp_unit: the only unit, or ValueError
lineno_for_addr(p, addr) ==
    LET units == DOMAIN p.addresses_by_lineno
    IN  IF Cardinality(units) # 1 THEN [err |-> "ValueError", lineno |-> << >>]
        ELSE [err |-> "",
              lineno |-> get_lineno_for_addr(p, addr, CHOOSE u \in units : TRUE)]

get_source_view(program, t, file) ==
    IF program = << >> THEN NotAvailable
    ELSE
    LET source_fname == get_comp_unit_for_addr(program[1], t.reg_pc - t.initial_pc)
        source_lines == SourceLines(file.n)
        found == lineno_for_addr(program[1], t.reg_pc - t.initial_pc)
        current_lineno == found.lineno[1]
        marked == [source_lines EXCEPT ![current_lineno].current = TRUE]
        start_lineno == IF current_lineno - 5 < 1 THEN 1 ELSE current_lineno - 5
        end_lineno == IF current_lineno + 5 > Len(source_lines)
                      THEN Len(source_lines) ELSE current_lineno + 5
    IN  IF source_fname = << >> THEN NotAvailable
        ELSE IF ~file.readable THEN NotAvailable
        ELSE IF found.err # "" THEN [NoView EXCEPT !.err = found.err]
        ELSE IF found.lineno = << >> THEN NotAvailable
        ELSE IF current_lineno > Len(source_lines)
        THEN [NoView EXCEPT !.err = "AssertionError"]
        \* source_lines[-1] for line 0: the last line, IndexError without one
        ELSE IF current_lineno = 0 /\ source_lines = << >>
        THEN [NoView EXCEPT !.err = "IndexError"]
        ELSE [returned |-> TRUE, err |-> "", header |-> source_fname,
              lines |-> PySlice(IF current_lineno = 0
                                THEN [source_lines EXCEPT
                                        ![Len(source_lines)].current = TRUE]
                                ELSE marked,
                                start_lineno - 1, end_lineno - 1)]

\* the most lines of a source file
MaxSourceLines == 13

\* a program of one unit with one line, whose code is at the offsets 0 .. 7
LineProgram(lineno) ==
    [comp_units |-> << [name |-> "main.c", start_addr |-> 0, end_addr |-> 0] >>,
     addresses_by_lineno |-> [u \in { "main.c" } |-> << << lineno, 0, 8 >> >>]]

\* the files: unreadable, or of up to MaxSourceLines lines
SourceFiles ==
    { [readable |-> FALSE, n |-> 0] }
        \cup { [readable |-> TRUE, n |-> n] : n \in 0 .. MaxSourceLines }

\* the target has stopped inside or behind the line; the program is loaded
\* or not
InitView ==
    /\ next_seqnum = 1
    /\ wire_out = << >>
    /\ wire_in = << >>
    /\ rbuf = << >>
    /\ pc = "idle"
    /\ ret = NoRet
    /\ calls = 0
    /\ last_sent = << >>
    /\ pending = << >>
    /\ acks_sent = 0
    /\ acks_rcvd = 0
    /\ frames_written = 0
    /\ frames_read = 0
    /\ InitCmdVars
    /\ dbg_target_info \in
          { << [StopAtBpoint EXCEPT !.reg_pc = StopAtBpoint.initial_pc + off] >> :
              off \in { 0, 8 } }
    /\ dbg_program \in
          { << >> } \cup { << LineProgram(c) >> : c \in 1 .. MaxSourceLines + 1 }
    /\ stored_args = << >>
    /\ cli = NoCli
    /\ result = NoResult
    /\ session = "prompt"
    /\ server_conn = "dbg"
    /\ stabs = << >>
    /\ exe_file = << >>
    /\ content_by_type = NoContent
    /\ next_instr_bytes = << >>
    /\ instr_tests = NoInstr
    /\ status_str = NoStatus
    /\ source_file \in { << f >> : f \in SourceFiles }
    /\ source_view = NoView
    /\ peer_closed = FALSE
    /\ empty_reads = 0
    /\ stabs_data = << >>
    /\ stabs_read = NoStabsRead

\* `inspect c` or the UI's update_views: dbg.target_info.get_source_view()
ShowSource ==
    /\ source_view = NoView
    /\ source_file # << >>
    /\ dbg_target_info # << >>
    /\ source_view' = get_source_view(dbg_program, dbg_target_info[1],
                                      source_file[1])
    /\ UNCHANGED << connVars, cmdVars, dbg_target_info, dbg_program, stored_args,
                    cli, result, session, server_conn, stabs, exeVars,
                    instrVars, source_file, peer_closed, empty_reads,
                    stabs_data, stabs_read >>

NextView == ShowSource

SpecView == InitView /\ [][NextView]_vars

\* the current line of the program and the number of lines of the file
CurrentLine == dbg_program[1].addresses_by_lineno["main.c"][1][1]

FileLines == source_file[1].n

\* get_source_view has listed lines for a current line that is in the file
Viewed ==
    /\ source_view.returned
    /\ source_view.header # << >>
    /\ CurrentLine <= FileLines

\* the smaller and the larger of two numbers
Min(a, b) == IF a < b THEN a ELSE b

Max(a, b) == IF a > b THEN a ELSE b

\* C32: for a file of N lines and a current line c with 1 <= c <= N the view
\* lists exactly the lines max(1, c - 5) .. min(N, c + 5), and line c, and
\* no other, is marked as the current line.
C32_SourceViewWindow ==
    Viewed =>
        /\ source_view.lines =
              [i \in 1 .. (Min(FileLines, CurrentLine + 5)
                              - Max(1, CurrentLine - 5) + 1) |->
                  [lineno |-> Max(1, CurrentLine - 5) + i - 1,
                   current |-> Max(1, CurrentLine - 5) + i - 1 = CurrentLine]]

\* what the view lists: the lines max(1, c - 5) .. min(N, c + 5) - 1
C32_WindowLacksLastLine ==
    Viewed =>
        /\ source_view.lines =
              [i \in 1 .. (Min(FileLines, CurrentLine + 5)
                              - Max(1, CurrentLine - 5)) |->
                  [lineno |-> Max(1, CurrentLine - 5) + i - 1,
                   current |-> Max(1, CurrentLine - 5) + i - 1 = CurrentLine]]

\* the current line is the last line of the file, and the view lacks it
C32_CurrentLineMissing ==
    /\ Viewed
    /\ CurrentLine = FileLines
    /\ FileLines > 6
    /\ \A i \in DOMAIN source_view.lines : ~source_view.lines[i].current

(***************************************************************************)
(* Claims about process_command (cli.py 614-638).                          *)
(***************************************************************************)
\* process_command has refused the command of the line because of the
\* target state
RefusedByState == \E c \in CliCommands : result'.msg = Refusal(c)

\* process_command has rejected a line that does not parse
RejectedByParser == result'.msg.text = "Invalid command / argument"

\* C33: when process_command refuses a command because of the target state,
\* or rejects a line that does not parse, nothing is sent to the agent, and
\* next_seq and the last TargetInfo are as before; the command loop goes on.
C33_RefusalSendsNothing ==
    [][(LineRead /\ (RefusedByState \/ RejectedByParser))
        => (/\ wire_out' = wire_out
            /\ SentType = -1
            /\ next_seqnum' = next_seqnum
            /\ dbg_target_info' = dbg_target_info
            /\ acks_sent' = acks_sent
            /\ result'.ti = << >>
            /\ session' = "prompt"
            /\ pc' = "idle")]_vars

\* C33's case: with the target stopped at a breakpoint, `run` was refused
\* after a server command had raised next_seq
C33_Witness ==
    /\ result.msg = Refusal("run")
    /\ stored_args = << Line("run", "") >>
    /\ dbg_target_info = << StopAtBpoint >>
    /\ next_seqnum >= 3
    /\ session = "prompt"
    /\ wire_out = << >>

\* the other case: a line that does not parse was rejected with the target
\* stopped
C33_RejectedLine ==
    /\ result.msg.text = "Invalid command / argument"
    /\ dbg_target_info = << StopAtJsr >>
    /\ session = "prompt"

(***************************************************************************)
(* The peer closes the connection while recv_message is in its loop        *)
(* (server.py 121-125). What socket.recv does then depends on how the      *)
(* connection ended: after an orderly close it returns b'' at once, every  *)
(* time it is called; after a reset it raises ConnectionResetError, which  *)
(* recv_message turns into ConnectionError (server.py 152-153). Bytes that *)
(* arrived before are read first.                                          *)
(***************************************************************************)
\* passes of the loop that read nothing, per call
MaxEmptyReads == 3

\* the peer closes its end while the host is inside recv_message
PeerClose ==
    /\ pc = "recv"
    /\ ~peer_closed
    /\ peer_closed' = TRUE
    /\ UNCHANGED << connVars, cmdVars, dbg_target_info, dbg_program, stored_args,
                    cli, result, session, server_conn, stabs, exeVars,
                    instrVars, source_file, source_view, empty_reads,
                    stabs_data, stabs_read >>

\* one pass of the loop on the closed connection with nothing left to read:
\* recv returns b'', the buffer stays as it is and holds no end byte, so
\* pos stays -1 and the loop goes on; or recv raises and the call ends with
\* ConnectionError
RecvClosed ==
    /\ pc = "recv"
    /\ peer_closed
    /\ wire_in = << >>
    /\ \/ /\ empty_reads < MaxEmptyReads
          /\ empty_reads' = empty_reads + 1
          /\ UNCHANGED << pc, ret, rbuf, frames_read >>
       \/ /\ pc' = "idle"
          /\ ret' = [ok |-> FALSE, type |-> -1, data |-> << >>]
          /\ rbuf' = << >>
          /\ frames_read' = frames_read + 1
          /\ empty_reads' = 0
    /\ UNCHANGED << next_seqnum, wire_out, wire_in, calls, last_sent, pending,
                    acks_sent, acks_rcvd, frames_written >>
    /\ UNCHANGED << cmdVars, dbg_target_info, dbg_program, stored_args, cli,
                    result, session, server_conn, stabs, exeVars, instrVars,
                    source_file, source_view, peer_closed, stabs_data,
                    stabs_read >>

\* the calls and the peer of the connection level while the connection is
\* open; a ConnectionError ends the session, and a closed peer writes and
\* reads nothing
NextClose ==
    \/ ~peer_closed /\ \E m \in ConnSends : CallSend(m[1], m[2])
    \/ ~peer_closed /\ CallRecv
    \/ RecvRead
    \/ ~peer_closed /\ PeerWrite
    \/ ~peer_closed /\ PeerRead
    \/ PeerClose
    \/ RecvClosed

SpecClose == InitConn /\ [][NextClose]_vars

\* a pass of recv_message's loop on the closed connection, nothing left to
\* read
ClosedPass == pc = "recv" /\ peer_closed /\ wire_in = << >> /\ vars' # vars

\* C34: when the agent has closed the connection while recv_message waits
\* for the end-of-frame byte, the call ends with a transport error: no pass
\* of its loop on the closed connection leaves it waiting.
C34_CloseEndsRecv ==
    [][ClosedPass => (pc' = "idle" /\ ~ret'.ok)]_vars

\* the loop has gone round on the closed connection and is still inside the
\* call
C34_LoopsOnClosedPeer ==
    /\ pc = "recv"
    /\ peer_closed
    /\ empty_reads = MaxEmptyReads

(***************************************************************************)
(* Long sessions: ServerConnection._next_seqnum is a Python int that       *)
(* send_message and recv_message only ever add 1 to (server.py 112, 146),  *)
(* while the header field is a c_uint16 (server.py 55). The session is     *)
(* taken up shortly before the count passes 2^16.                          *)
(***************************************************************************)
\* 2^16, the number of values of the header's sequence number
SeqModulus == 65536

\* the session after SeqModulus - 2 or SeqModulus - 1 acknowledgements, half
\* of them sent and half received, each one sent for a stop notification;
\* no call is in progress, and the frames are counted from here on
InitWrap ==
    /\ next_seqnum \in { SeqModulus - 2, SeqModulus - 1 }
    /\ wire_out = << >>
    /\ wire_in = << >>
    /\ rbuf = << >>
    /\ pc = "idle"
    /\ ret = NoRet
    /\ calls = 0
    /\ last_sent = << >>
    /\ pending = << >>
    /\ acks_rcvd = next_seqnum \div 2
    /\ acks_sent = next_seqnum - acks_rcvd
    /\ frames_written = 0
    /\ frames_read = 0
    /\ InitCmdVars
    /\ InitCliVars
    /\ dbg_program = << >>

SpecWrap == InitWrap /\ [][NextConn]_vars

\* the sequence number in the header of the frame this step hands to the
\* socket
SentSeqnum ==
    ParseMessage(SlipDecode(
        SubSeq(wire_out', Len(wire_out) + 1, Len(wire_out')))).seqnum

\* a recv_message call ends on an ACK / NACK that carries the sequence
\* number a 16-bit counter in step with next_seq holds
ExpectedAckRead ==
    /\ RecvEnds
    /\ HeadFrameWhole
    /\ IsAckOrNack(Head(pending).type)
    /\ Head(pending).seqnum = next_seqnum % SeqModulus

\* C35: the sequence number written into every sent header equals next_seq,
\* and an ACK / NACK with the agent's 16-bit expected sequence number is
\* accepted after any number of exchanges, also beyond 65535 of them.
C35_SeqWraps ==
    /\ [][SentType # -1 => SentSeqnum = next_seqnum]_vars
    /\ [][ExpectedAckRead
            => (/\ ret'.ok
                /\ ret'.type = Head(pending).type
                /\ acks_rcvd' = acks_rcvd + 1)]_vars

\* what the code does: the header carries next_seq modulo 2^16, and the
\* ACK / NACK is accepted only while next_seq itself is below 2^16
C35_SeqComparedUnwrapped ==
    /\ [][SentType # -1 => SentSeqnum = next_seqnum % SeqModulus]_vars
    /\ [][ExpectedAckRead
            => IF next_seqnum < SeqModulus
               THEN ret'.ok /\ next_seqnum' = next_seqnum + 1
               ELSE ~ret'.ok /\ next_seqnum' = next_seqnum]_vars

\* an acknowledgement with sequence number 0 was refused by a host whose
\* next_seq is 2^16
C35_AckRefusedAfterWrap ==
    /\ next_seqnum = SeqModulus
    /\ pc = "idle"
    /\ ~ret.ok
    /\ frames_read = 2
    /\ acks_rcvd = (SeqModulus - 1) \div 2 + 1

(***************************************************************************)
(* Claims about the last TargetInfo (cli.py 153-159, 441-447, 141-146).    *)
(***************************************************************************)
\* the CLI commands that run the target, and those that cause no stop
RunCommands == { "run", "continue", "kill", "stepi", "nexti", "step", "next" }

NoStopCommands ==
    { "break", "delete", "hexdump", "examine", "disassemble", "backtrace",
      "inspect" }

\* C36: every stop notification that a run-causing server command of run,
\* continue, kill, stepi, nexti, step or next receives becomes the last
\* TargetInfo, and nothing else changes the last TargetInfo: when such a
\* command has completed its exchange the last TargetInfo is the one of
\* the last notification, and break, delete, hexdump, examine, disassemble,
\* backtrace and inspect leave it as it is.
C36_LastInfoFollowsStops ==
    /\ [][(StopReceived /\ cli # NoCli)
            => (/\ cli.command \in RunCommands
                /\ dbg_target_info'
                     = << DecodeTargetInfo(Head(pending).data) >>)]_vars
    /\ [][dbg_target_info' # dbg_target_info
            => (StopReceived /\ cli.command \in RunCommands)]_vars
    /\ [][\A c \in NoStopCommands :
            (LineFor(c) \/ cli.command = c)
                => dbg_target_info' = dbg_target_info]_vars
    /\ [](( /\ pc = "idle"
            /\ raised = ""
            /\ cmd.msg_type \in RunCausing
            /\ cmd.target_info # << >>)
            => dbg_target_info = cmd.target_info)

\* C36's case: continue has completed after run: the last TargetInfo is the
\* one of the second notification, and a delete after it has left it there
C36_Witness ==
    /\ session = "prompt"
    /\ pc = "idle"
    /\ stored_args = << Line("delete", "1") >>
    /\ cmd.msg_type = MSG_CLEAR_BPOINT
    /\ raised = ""
    /\ calls = 3
    /\ dbg_target_info = << StopAtJsr >>
    /\ stop_sent = << >>

\* the command loop is at the prompt
AtPrompt == session = "prompt" /\ pc = "idle" /\ cli = NoCli

\* the empty line
EmptyLine == Line("", "")

\* C37: at the prompt with a stored command, the empty line does what the
\* stored line does when typed again, the check of the target state
\* included, and the stored command stays; without a stored command it
\* gives a message, sends nothing and stores nothing; a line that does not
\* parse leaves the stored command as it is.
C37_EmptyLineRepeats ==
    /\ []((AtPrompt /\ stored_args # << >>)
            => LET again == process_command(EmptyLine, stored_args,
                                            dbg_target_info, dbg_program)
                   typed == process_command(stored_args[1], stored_args,
                                            dbg_target_info, dbg_program)
               IN  /\ again = typed
                   /\ again.stored = stored_args
                   /\ (/\ stored_args[1].command \in CliCommands
                       /\ ~is_correct_target_state_for_command(
                              stored_args[1].command, dbg_target_info))
                        => again.plan = Done(Refusal(stored_args[1].command),
                                             << >>, dbg_target_info))
    /\ []((AtPrompt /\ stored_args = << >>)
            => process_command(EmptyLine, stored_args, dbg_target_info,
                               dbg_program).plan
                 = Done(Msg("Can't repeat command", "", << >>), << >>,
                        dbg_target_info))
    /\ [][(LineRead /\ result'.msg.text = "Can't repeat command")
            => (/\ stored_args = << >>
                /\ stored_args' = << >>
                /\ wire_out' = wire_out
                /\ next_seqnum' = next_seqnum
                /\ AtPrompt')]_vars
    /\ [][(LineRead /\ RejectedByParser) => stored_args' = stored_args]_vars
    /\ [][(LineRead /\ stored_args' # stored_args)
            => (/\ stored_args' # << >>
                /\ \E line \in CliLines :
                      /\ line # EmptyLine
                      /\ parse_args(line).ok
                      /\ stored_args' = << parse_args(line).args >>)]_vars

\* C37's case: stepi is stored, the target has exited, and a line has been
\* refused for it; the empty line is refused in the same way
C37_Witness ==
    /\ AtPrompt
    /\ stored_args = << Line("stepi", "") >>
    /\ dbg_target_info = << StopExited >>
    /\ result.msg = Refusal("stepi")
    /\ process_command(EmptyLine, stored_args, dbg_target_info,
                       dbg_program).plan.result = result

\* the other cases: a line that did not parse was rejected with a command
\* stored, and the empty line came first
C37_RejectedKeepsStored ==
    /\ AtPrompt
    /\ result.msg.text = "Invalid command / argument"
    /\ stored_args = << Line("continue", "") >>

(***************************************************************************)
(* Claims about the call stack that step captures (cli.py 559-561,         *)
(* target.py 256-276).                                                     *)
(***************************************************************************)
\* step is accepted on a running target whose PC has a line: it goes on to
\* get_call_stack
StepCapturesStack ==
    /\ LineFor("step")
    /\ Running(dbg_target_info)
    /\ current_line(dbg_program, dbg_target_info[1]).raised = ""

\* C38: whenever step captures the call stack, get_call_stack returns at
\* least one frame, whatever A5 is, so reading call_stack[0] is defined:
\* with A5 = 0xffffffff step does not end with an internal error, and step
\* never enters its loop without a frame.
C38_CurrentFrameDefined ==
    /\ [][StepCapturesStack => session' # "fatal"]_vars
    /\ [][(StepCapturesStack /\ cli' # NoCli /\ cli'.stage # "stack")
            => cli'.stack_frames # << >>]_vars
    /\ []((cli.command = "step" /\ cli.stage = "step")
            => cli.stack_frames # << >>)

\* what the code does: with A5 = 0xffffffff the list is empty and step ends
\* the command loop (IndexError); with any other A5 the first PEEK_MEM is
\* sent
C38_EmptyStackIsFatal ==
    [][StepCapturesStack
        => IF dbg_target_info[1].reg_a5 = EndOfFrames
           THEN session' = "fatal" /\ wire_out' = wire_out
           ELSE PeekSent(dbg_target_info[1].reg_a5)]_vars

\* step on a target whose A5 is 0xffffffff has ended the command loop
C38_StepWithoutFrame ==
    /\ session = "fatal"
    /\ stored_args = << Line("step", "") >>
    /\ dbg_target_info = << StopAtBpoint >>
    /\ raised = ""

(***************************************************************************)
(* from_stabs_data: the stabs of the HUNK_DEBUG block. The block is a byte *)
(* string: a stab of type N_UNDF, the stabs, the string table.             *)
(***************************************************************************)
\* sizeof(Stab): c_uint32, c_uint8, c_uint8, c_uint16, c_uint32
StabSize == 12

\* Stab.from_buffer_copy(buf): the fields of the first 12 bytes, big-endian
StabAt(buf) ==
    [offset |-> U32At(buf, 1), type |-> buf[5], other |-> buf[6],
     desc |-> U16At(buf, 7), value |-> U32At(buf, 9)]

\* _get_string_from_buffer(buffer): the bytes in front of the first NUL,
\* decoded as ASCII (a str is written as its code points); ValueError
\* without a NUL, UnicodeDecodeError on a byte above 127
get_string_from_buffer(buffer) ==
    LET idx == Find(buffer, 0)
    IN  IF idx = -1 THEN [err |-> "ValueError", string |-> << >>]
        ELSE IF \E i \in 1 .. idx : buffer[i] > 127
        THEN [err |-> "UnicodeDecodeError", string |-> << >>]
        ELSE [err |-> "", string |-> Slice(buffer, 0, idx)]

\* the types of the stabs from_stabs_data keeps
RelevantTypes ==
    { N_SO, N_GSYM, N_STSYM, N_LSYM, N_PSYM, N_FUN, N_LBRAC, N_RBRAC, N_SLINE }

\* from_stabs_data raises
ReadRaises(err, num_read) ==
    [returned |-> FALSE, err |-> err, num_read |-> num_read, stabs |-> << >>]

\* the loop for i in range(0, num_stabs - 1), at pass i with the list so
\* far: the stab at offset 12 * i of the table and its string; a stab whose
\* type has no name in StabTypes is skipped by `continue`, one of another
\* type than RelevantTypes is not appended, which comes to the same
RECURSIVE read_stabs(_, _, _, _, _)
read_stabs(stab_table, string_table, i, num_stabs, list) ==
    IF i >= num_stabs - 1
    THEN [returned |-> TRUE, err |-> "", num_read |-> i, stabs |-> list]
    ELSE LET buf == Slice(stab_table, StabSize * i, Len(stab_table))
         IN  IF Len(buf) < StabSize THEN ReadRaises("ValueError", i)
             ELSE LET stab == StabAt(buf)
                      str == get_string_from_buffer(
                                 Slice(string_table, stab.offset,
                                       Len(string_table)))
                  IN  IF str.err # "" THEN ReadRaises(str.err, i)
                      ELSE read_stabs(stab_table, string_table, i + 1,
                               num_stabs,
                               IF stab.type \in RelevantTypes
                               THEN Append(list,
                                        [offset |-> stab.offset,
                                         type |-> stab.type,
                                         other |-> stab.other,
                                         desc |-> stab.desc,
                                         value |-> stab.value,
                                         string |-> str.string])
                               ELSE list)

\* from_stabs_data with the string table at byte offset desc
from_stabs_data_TableAtDesc(data) ==
    IF Len(data) < StabSize THEN ReadRaises("ValueError", 0)
    ELSE LET stab == StabAt(data)
         IN  IF stab.type # N_UNDF THEN ReadRaises("ValueError", 0)
             ELSE LET num_stabs == stab.desc \div StabSize
                      stab_table == Slice(data, StabSize, Len(data))
                      string_table ==
                          Slice(data, StabSize * num_stabs, Len(data))
                  IN  read_stabs(stab_table, string_table, 0, num_stabs,
                                 << >>)

\* from_stabs_data(data) up to the call of the constructor: the stabs with
\* their strings
from_stabs_data(data) ==
    IF Len(data) < StabSize THEN ReadRaises("ValueError", 0)
    ELSE LET stab == StabAt(data)
         IN  IF stab.type # N_UNDF THEN ReadRaises("ValueError", 0)
             ELSE LET num_stabs == stab.desc \div StabSize
                      stab_table == Slice(data, StabSize, Len(data))
                      string_table ==
                          Slice(data, StabSize + StabSize * num_stabs,
                                Len(data))
                  IN  read_stabs(stab_table, string_table, 0, num_stabs,
                                 << >>)

\* the names of the model as ASCII
AsciiNames == << "src/", "main.c", "util.c", "f1", "f2", "x" >>

Ascii(string) ==
    CASE string = "" -> << >>
      [] string = "src/" -> << 115, 114, 99, 47 >>
      [] string = "main.c" -> << 109, 97, 105, 110, 46, 99 >>
      [] string = "util.c" -> << 117, 116, 105, 108, 46, 99 >>
      [] string = "f1" -> << 102, 49 >>
      [] string = "f2" -> << 102, 50 >>
      [] string = "x" -> << 120 >>

\* any name that is none of the names of the model
OtherName == "?"

\* the str of a sequence of code points
StrOf(codes) ==
    LET named == { n \in { AsciiNames[i] : i \in 1 .. Len(AsciiNames) }
                         \cup { "" } : Ascii(n) = codes }
    IN  IF named = {} THEN OtherName ELSE CHOOSE n \in named : TRUE

\* a string table with the names of the model: the empty string at offset
\* 0, then every name with its NUL
RECURSIVE NamesFrom(_)
NamesFrom(k) ==
    IF k > Len(AsciiNames) THEN << >>
    ELSE Ascii(AsciiNames[k]) \o << 0 >> \o NamesFrom(k + 1)

StringTable == << 0 >> \o NamesFrom(1)

\* the offset of a name in StringTable
RECURSIVE OffsetFrom(_, _, _)
OffsetFrom(string, k, at) ==
    IF AsciiNames[k] = string THEN at
    ELSE OffsetFrom(string, k + 1, at + Len(Ascii(AsciiNames[k])) + 1)

StrOffset(string) == IF string = "" THEN 0 ELSE OffsetFrom(string, 1, 1)

\* the 12 bytes of a stab
StabBytes(offset, type, desc, value) ==
    U32Bytes(offset) \o << type, 0 >> \o U16Bytes(desc) \o U32Bytes(value)

RECURSIVE StabsBytes(_)
StabsBytes(list) ==
    IF list = << >> THEN << >>
    ELSE StabBytes(StrOffset(list[1].string), list[1].type, list[1].desc,
                   list[1].value) \o StabsBytes(Tail(list))

\* functions in the stabs of a block
MaxStabFuncs == 1

\* a stab of a type that is not kept, and one whose type has no name
UnusedStabs ==
    { << >>, << Stab(N_RSYM, "x", 0, 0) >>, << Stab(153, "", 0, 0) >> }

\* the stabs behind the first one: those of a unit
BlockStabs ==
    { WithValues(UnitStabs("main.c", with_dir) \o unused
                     \o FuncsStabs(1, shapes, lines_first),
                 TRUE) :
        with_dir \in BOOLEAN, unused \in UnusedStabs,
        shapes \in UNION { [1 .. n -> FuncShapes] : n \in 0 .. MaxStabFuncs },
        lines_first \in BOOLEAN }

\* a block: the N_UNDF stab, the stabs, the string table right behind them.
\* desc of the first stab is the size of the stabs in bytes with the first
\* one counted (counts_first) or without it
StabsBlock(list, counts_first) ==
    StabBytes(StrOffset("main.c"), N_UNDF,
              StabSize * (Len(list) + IF counts_first THEN 1 ELSE 0),
              Len(StringTable))
        \o StabsBytes(list) \o StringTable

\* blocks that are not a stab table: one that starts with another stab, and
\* one that is too short
BadBlocks ==
    { StabsBytes(UnitStabs("main.c", FALSE)) \o StringTable,
      << 0, 0, 0, 0 >> }

DebugBlocks ==
    { StabsBlock(list, counts_first) :
        list \in BlockStabs, counts_first \in BOOLEAN } \cup BadBlocks

InitStabs ==
    /\ next_seqnum = 0
    /\ wire_out = << >>
    /\ wire_in = << >>
    /\ rbuf = << >>
    /\ pc = "idle"
    /\ ret = NoRet
    /\ calls = 0
    /\ last_sent = << >>
    /\ pending = << >>
    /\ acks_sent = 0
    /\ acks_rcvd = 0
    /\ frames_written = 0
    /\ frames_read = 0
    /\ InitCmdVars
    /\ dbg_target_info = << >>
    /\ dbg_program = << >>
    /\ stored_args = << >>
    /\ cli = NoCli
    /\ result = NoResult
    /\ session = "init"
    /\ server_conn = "none"
    /\ stabs = << >>
    /\ exe_file = << >>
    /\ content_by_type = NoContent
    /\ next_instr_bytes = << >>
    /\ instr_tests = NoInstr
    /\ status_str = NoStatus
    /\ source_file = << >>
    /\ source_view = NoView
    /\ peer_closed = FALSE
    /\ empty_reads = 0
    /\ stabs_data \in { << block >> : block \in DebugBlocks }
    /\ stabs_read = NoStabsRead

\* _init_debugger: dbg.program = ProgramWithDebugInfo.from_stabs_data(...)
\* with the content of the HUNK_DEBUG block; the stabs read go to the
\* constructor, and an exception ends main
LoadStabsData ==
    /\ session = "init"
    /\ server_conn = "none"
    /\ dbg_program = << >>
    /\ stabs_data # << >>
    /\ stabs_read = NoStabsRead
    /\ LET r == from_stabs_data(stabs_data[1])
           list == [i \in 1 .. Len(r.stabs) |->
                       Stab(r.stabs[i].type, StrOf(r.stabs[i].string),
                            r.stabs[i].desc, r.stabs[i].value)]
           p == ProgramWithDebugInfo(list)
       IN  /\ stabs_read' = r
           /\ IF r.err # ""
              THEN stabs' = stabs /\ dbg_program' = << >> /\ session' = "fatal"
              ELSE /\ stabs' = list
                   /\ IF p.err = ""
                      THEN dbg_program' = << p >> /\ session' = session
                      ELSE dbg_program' = << >> /\ session' = "fatal"
    /\ UNCHANGED << connVars, cmdVars, dbg_target_info, stored_args, cli, result,
                    server_conn, exeVars, instrVars, source_file, source_view,
                    peer_closed, empty_reads, stabs_data >>

NextStabs == LoadStabsData

SpecStabs == InitStabs /\ [][NextStabs]_vars

\* the block handed to from_stabs_data and its first stab
Block == stabs_data[1]

FirstStab == StabAt(Block)

\* from_stabs_data has read a block whose first stab is N_UNDF with
\* desc = 12 * NStabs, and the block holds the NStabs - 1 stabs behind it
ReadSized ==
    /\ stabs_data # << >>
    /\ stabs_read # NoStabsRead
    /\ Len(Block) >= StabSize
    /\ FirstStab.type = N_UNDF
    /\ FirstStab.desc >= StabSize
    /\ FirstStab.desc % StabSize = 0
    /\ Len(Block) >= FirstStab.desc

NStabs == FirstStab.desc \div StabSize

\* the k-th stab behind the first one
StabNo(k) == StabAt(Slice(Block, StabSize * k, StabSize * k + StabSize))

\* the ASCII string that ends with a NUL at a byte offset of the block,
\* << -1 >> where there is none
StringAt(at) ==
    LET rest == Slice(Block, at, Len(Block))
        idx == Find(rest, 0)
    IN  IF idx = -1 \/ \E i \in 1 .. idx : rest[i] > 127 THEN << -1 >>
        ELSE Slice(rest, 0, idx)

\* every one of the NStabs - 1 stabs has a string in a string table that
\* starts at byte offset start of the block
StringsAt(start) ==
    \A k \in 1 .. NStabs - 1 : StringAt(start + StabNo(k).offset) # << -1 >>

\* the stabs of RelevantTypes among the NStabs - 1 stabs behind the first
\* one, with their strings from a string table at byte offset start
KeptWith(start) ==
    LET all == [k \in 1 .. NStabs - 1 |->
                   [offset |-> StabNo(k).offset, type |-> StabNo(k).type,
                    other |-> StabNo(k).other, desc |-> StabNo(k).desc,
                    value |-> StabNo(k).value,
                    string |-> StringAt(start + StabNo(k).offset)]]
        kept(stab) == stab.type \in RelevantTypes
    IN  SelectSeq(all, kept)

====
